---- MODULE Spec2Model ----
(***************************************************************************)
(* BTOON core: the wire encoder (src/src/encoder.cpp), the wire decoder    *)
(* (src/src/decoder.cpp), the public encode/decode entry points and the    *)
(* compression frame (src/src/btoon.cpp, src/src/compression.cpp).         *)
(*                                                                         *)
(* Conventions.                                                            *)
(*  - A byte is a number 0..255; a buffer, a String and a Binary are        *)
(*    sequences of bytes.  Buffer positions are 0-based as in the code:    *)
(*    buffer[pos] of the code is At(buffer, pos).                          *)
(*  - A 64-bit quantity (Int, Uint, Float bit pattern, Timestamp, size_t)  *)
(*    is a "word": a sequence of 8 bytes, most significant byte first.     *)
(*    TLC's integers are 32 bits wide, so the 64-bit payloads are          *)
(*    kept as bit patterns and the range tests of the code are made on     *)
(*    the pattern.                                                         *)
(*  - A Value is a record [t |-> variant name, v |-> payload].             *)
(*  - A Map (std::map<String, Value>) is a sequence of [k, v] entries in   *)
(*    strictly ascending byte order of k, which is the order std::map      *)
(*    iterates in.                                                         *)
(***************************************************************************)
EXTENDS Integers, Sequences, FiniteSets, TLC

VARIABLES
    host,         \* byte order of the build host: "LE" or "BE"
    with_lz4,     \* build flag BTOON_WITH_LZ4
    with_zstd,    \* build flag BTOON_WITH_ZSTD
    op,           \* the last step: "init", "encode", "load", "decode"
    value,        \* the Value last given to encode
    eopts,        \* the EncodeOptions of that call
    enc,          \* what that call returned or threw
    data,         \* the buffer the next decode call is given
    source,       \* where data comes from: "encode" (the public encode),
                  \* "Encoder" (Encoder::encode), "bytes" (given by the caller)
    dopts,        \* the DecodeOptions of the last decode call
    dec,          \* the last decode call: where it stands and what it
                  \* returned or threw
    threads,      \* per thread: the top-level calls it has made and the
                  \* call it is in
    first,        \* per call of SessionCalls: what it returned or threw the
                  \* first time it was made, <<>> before that
    schemas_,     \* RegistryImpl::schemas_: name -> version -> schema
    registered,   \* per name and version: the schema last registered there
                  \* and not removed since, or Null
    lastcall,     \* the last call made on the registry
    rle           \* the last RleCodec call: its array, bytes and result

vars == <<host, with_lz4, with_zstd, op, value, eopts, enc, data, source, dopts, dec,
          threads, first, schemas_, registered, lastcall, rle>>

\* The variables of the threads
session == <<threads, first>>

\* The variables of the schema registry
registry == <<schemas_, registered, lastcall>>

-----------------------------------------------------------------------------
(* Bytes and words *)

At(buffer, pos) == buffer[pos + 1]

Slice(buffer, pos, n) == SubSeq(buffer, pos + 1, pos + n)

Reverse(s) == [i \in 1..Len(s) |-> s[Len(s) + 1 - i]]

RECURSIVE Concat(_)
Concat(ss) == IF Len(ss) = 0 THEN <<>> ELSE Head(ss) \o Concat(Tail(ss))

Max(a, b) == IF a >= b THEN a ELSE b

Pow256(k) == CASE k = 0 -> 1 [] k = 1 -> 256 [] k = 2 -> 65536 [] OTHER -> 16777216

\* The 64-bit two's complement pattern of a number n of at most 32 bits.
I64(n) ==
    [i \in 1..8 |-> IF i <= 4 THEN (IF n < 0 THEN 255 ELSE 0)
                    ELSE (n \div Pow256(8 - i)) % 256]

\* static_cast<uint8_t>(x) of a small signed number
U8(x) == x % 256

\* static_cast<int8_t>(b) of a byte
S8(b) == IF b >= 128 THEN b - 256 ELSE b

\* The bytes of a word as they lie in the memory of the host:
\* reinterpret_cast<uint8_t*>(&value).
Mem(w) == IF host = "LE" THEN Reverse(w) ELSE w

\* reinterpret_cast<uint8_t*>(&value) .. + n : the first n bytes in memory.
FirstBytes(w, n) == SubSeq(Mem(w), 1, n)

\* htons / htonl of a size: the n low bytes, most significant first.
BE(w, n) == SubSeq(w, 9 - n, 8)

\* value fits the signed n-byte range: the upper bytes are the sign extension
SFits(w, n) == \A i \in 1..(8 - n) : w[i] = (IF w[9 - n] >= 128 THEN 255 ELSE 0)

\* value <= 2^(8n) - 1 for an unsigned value
UFits(w, n) == \A i \in 1..(8 - n) : w[i] = 0

\* Lengths at or above Huge are kept as Huge: every buffer of the model is
\* far shorter, and the code only adds such a length to a position and
\* compares the sum with a buffer size.
Huge == 1073741824

\* ntohs / ntohl of n bytes copied from the buffer: the big-endian number.
BENum(b) ==
    IF Len(b) = 4 /\ b[1] >= 64 THEN Huge
    ELSE IF Len(b) = 1 THEN b[1]
    ELSE IF Len(b) = 2 THEN b[1] * 256 + b[2]
    ELSE b[1] * 16777216 + b[2] * 65536 + b[3] * 256 + b[4]

\* The word of an unsigned number read from n big-endian bytes (zero-extended).
ZeroExt(b) == [i \in 1..8 |-> IF i <= 8 - Len(b) THEN 0 ELSE b[i - (8 - Len(b))]]

\* The word of an int8_t (sign-extended).
SignExt8(b) == [i \in 1..8 |-> IF i <= 7 THEN (IF b >= 128 THEN 255 ELSE 0) ELSE b]

-----------------------------------------------------------------------------
(* Values: the variants of btoon::Value *)

NilV == [t |-> "Nil", v |-> <<>>]
BoolV(b) == [t |-> "Bool", v |-> b]
IntV(w) == [t |-> "Int", v |-> w]
UintV(w) == [t |-> "Uint", v |-> w]
FloatV(w) == [t |-> "Float", v |-> w]
StringV(s) == [t |-> "String", v |-> s]
BinaryV(s) == [t |-> "Binary", v |-> s]
ArrayV(a) == [t |-> "Array", v |-> a]
MapV(m) == [t |-> "Map", v |-> m]
ExtensionV(type, bytes) == [t |-> "Extension", v |-> [type |-> type, data |-> bytes]]
TimestampV(w) == [t |-> "Timestamp", v |-> w]
DateV(w) == [t |-> "Date", v |-> w]
DateTimeV(w) == [t |-> "DateTime", v |-> w]
BigIntV(bytes) == [t |-> "BigInt", v |-> bytes]
VectorFloatV(fs) == [t |-> "VectorFloat", v |-> fs]
VectorDoubleV(ds) == [t |-> "VectorDouble", v |-> ds]

\* std::string operator< : byte-lexicographic
RECURSIVE StrLess(_, _)
StrLess(a, b) ==
    IF Len(b) = 0 THEN FALSE
    ELSE IF Len(a) = 0 THEN TRUE
    ELSE IF Head(a) # Head(b) THEN Head(a) < Head(b)
    ELSE StrLess(Tail(a), Tail(b))

\* An insertion that keeps the order in which the keys arrive
RECURSIVE MapPutAtEnd(_, _, _)
MapPutAtEnd(m, key, val) ==
    IF Len(m) = 0 THEN <<[k |-> key, v |-> val]>>
    ELSE IF Head(m).k = key THEN <<[k |-> key, v |-> val]>> \o Tail(m)
    ELSE <<Head(m)>> \o MapPutAtEnd(Tail(m), key, val)

\* map[key] = val on a std::map: insert in key order, or overwrite.
RECURSIVE MapPut(_, _, _)
MapPut(m, key, val) ==
    IF Len(m) = 0 THEN <<[k |-> key, v |-> val]>>
    ELSE IF Head(m).k = key THEN <<[k |-> key, v |-> val]>> \o Tail(m)
    ELSE IF StrLess(key, Head(m).k) THEN <<[k |-> key, v |-> val]>> \o m
    ELSE <<Head(m)>> \o MapPut(Tail(m), key, val)

\* Map{{k1, v1}, {k2, v2}, ...}: the initializer list inserted into a std::map
RECURSIVE MapOf(_)
MapOf(kvs) ==
    IF Len(kvs) = 0 THEN <<>>
    ELSE LET rest == MapOf(SubSeq(kvs, 1, Len(kvs) - 1))
             last == kvs[Len(kvs)]
         IN IF \E i \in 1..Len(rest) : rest[i].k = last[1] THEN rest
            ELSE MapPut(rest, last[1], last[2])

MapHas(m, key) == \E i \in 1..Len(m) : m[i].k = key

MapAt(m, key) == m[CHOOSE i \in 1..Len(m) : m[i].k = key].v

\* Value::operator== : same variant and equal payload
RECURSIVE ValueEq(_, _)
ValueEq(a, b) ==
    IF a.t # b.t THEN FALSE
    ELSE IF a.t = "Array" THEN
        /\ Len(a.v) = Len(b.v)
        /\ \A i \in 1..Len(a.v) : ValueEq(a.v[i], b.v[i])
    ELSE IF a.t = "Map" THEN
        /\ Len(a.v) = Len(b.v)
        /\ \A i \in 1..Len(a.v) : a.v[i].k = b.v[i].k /\ ValueEq(a.v[i].v, b.v[i].v)
    ELSE IF a.t = "Extension" THEN a.v.type = b.v.type /\ a.v.data = b.v.data
    ELSE a.v = b.v

-----------------------------------------------------------------------------
(* Encoder: src/src/encoder.cpp.  Each operator is the bytes the method    *)
(* appends to buffer_.                                                     *)

encodeNil == <<192>>

encodeBool(b) == <<IF b THEN 195 ELSE 194>>

\* An encodeInt without the int8 form
encodeIntFromInt16(w) ==
    IF SFits(w, 1) /\ (w[8] <= 127 \/ w[8] >= 224) THEN <<w[8]>>
    ELSE IF SFits(w, 2) THEN <<209>> \o FirstBytes(w, 2)
    ELSE IF SFits(w, 4) THEN <<210>> \o FirstBytes(w, 4)
    ELSE <<211>> \o FirstBytes(w, 8)

encodeInt(w) ==
    IF SFits(w, 1) /\ (w[8] <= 127 \/ w[8] >= 224) THEN <<w[8]>>
    ELSE IF SFits(w, 1) THEN <<208, w[8]>>
    ELSE IF SFits(w, 2) THEN <<209>> \o FirstBytes(w, 2)
    ELSE IF SFits(w, 4) THEN <<210>> \o FirstBytes(w, 4)
    ELSE <<211>> \o FirstBytes(w, 8)

encodeUint(w) ==
    IF UFits(w, 1) /\ w[8] <= 127 THEN <<w[8]>>
    ELSE IF UFits(w, 1) THEN <<204, w[8]>>
    ELSE IF UFits(w, 2) THEN <<205>> \o FirstBytes(w, 2)
    ELSE IF UFits(w, 4) THEN <<206>> \o FirstBytes(w, 4)
    ELSE <<207>> \o FirstBytes(w, 8)

encodeFloat(w) == <<203>> \o FirstBytes(w, 8)

encodeString(s) ==
    LET len == Len(s) IN
    (IF len <= 31 THEN <<160 + len>>
     ELSE IF len <= 255 THEN <<217, len>>
     ELSE IF len <= 65535 THEN <<218>> \o FirstBytes(I64(len), 2)
     ELSE <<219>> \o FirstBytes(I64(len), 4)) \o s

encodeBinary(s) ==
    LET len == Len(s) IN
    (IF len <= 255 THEN <<196, len>>
     ELSE IF len <= 65535 THEN <<197>> \o FirstBytes(I64(len), 2)
     ELSE <<198>> \o FirstBytes(I64(len), 4)) \o s

\* elements: the already encoded elements
encodeArray(elements) ==
    LET len == Len(elements) IN
    (IF len <= 15 THEN <<144 + len>>
     ELSE IF len <= 65535 THEN <<220>> \o FirstBytes(I64(len), 2)
     ELSE <<221>> \o FirstBytes(I64(len), 4)) \o Concat(elements)

\* pairs: key -> already encoded value, in key order
encodeMap(pairs) ==
    LET len == Len(pairs) IN
    (IF len <= 15 THEN <<128 + len>>
     ELSE IF len <= 65535 THEN <<222>> \o FirstBytes(I64(len), 2)
     ELSE <<223>> \o FirstBytes(I64(len), 4))
    \o Concat([i \in 1..len |-> encodeString(pairs[i].k) \o pairs[i].v])

encodeExtension(type, bytes) ==
    LET len == Len(bytes) IN
    (IF len = 1 THEN <<212>>
     ELSE IF len = 2 THEN <<213>>
     ELSE IF len = 4 THEN <<214>>
     ELSE IF len = 8 THEN <<215>>
     ELSE IF len = 16 THEN <<216>>
     ELSE IF len <= 255 THEN <<199, len>>
     ELSE IF len <= 65535 THEN <<200>> \o BE(I64(len), 2)
     ELSE <<201>> \o BE(I64(len), 4))
    \o <<U8(type)>> \o bytes

encodeTimestamp(w) == encodeExtension(-1, FirstBytes(w, 8))

encodeDate(w) == encodeExtension(-1, FirstBytes(w, 8))

encodeDateTime(w) == encodeExtension(-2, FirstBytes(w, 8))

encodeBigInt(bytes) == encodeExtension(0, bytes)

\* value.data.data() reinterpreted as bytes: each element as it lies in memory
encodeVectorFloat(fs) == encodeExtension(-3, Concat([i \in 1..Len(fs) |-> Mem(fs[i])]))

encodeVectorDouble(ds) == encodeExtension(-4, Concat([i \in 1..Len(ds) |-> Mem(ds[i])]))

-----------------------------------------------------------------------------
(* Decoder: src/src/decoder.cpp.                                           *)
(*                                                                         *)
(* A method that reads one element yields a record                         *)
(*   ok    TRUE when it returned, FALSE when it threw or ran into          *)
(*         undefined behaviour                                             *)
(*   val   the payload returned                                            *)
(*   pos   the cursor afterwards (where it stood when the method failed)   *)
(*   err   the message of the exception thrown                             *)
(*   ub    TRUE when it read the buffer outside [0, size): the span's      *)
(*         operator[] and memcpy are unchecked, so the build may crash or  *)
(*         go on with any bytes; the model stops there and keeps no result *)
(***************************************************************************)

Ok(val, pos) == [ok |-> TRUE, val |-> val, pos |-> pos, err |-> "", ub |-> FALSE]

Throw(msg, pos) == [ok |-> FALSE, val |-> NilV, pos |-> pos, err |-> msg, ub |-> FALSE]

Undefined(pos) ==
    [ok |-> FALSE, val |-> NilV, pos |-> pos, err |-> "undefined behaviour", ub |-> TRUE]

\* Value(decodeX(buffer, pos)): the payload as the variant t of Value
Wrap(r, t) == IF r.ok THEN [r EXCEPT !.val = [t |-> t, v |-> r.val]] ELSE r

\* check_overflow throws
Overflows(pos, count, buffer) == pos + count > Len(buffer)

\* An unchecked read of count bytes at pos leaves the buffer
Outside(pos, count, buffer) == pos + count > Len(buffer)

decodeNil(pos) == Ok(<<>>, pos + 1)

decodeBool(buffer, pos) == Ok(At(buffer, pos) = 195, pos + 1)

decodeInt(buffer, pos) ==
    LET marker == At(buffer, pos)
        p == pos + 1
    IN CASE marker = 208 -> IF Overflows(p, 1, buffer) THEN Throw("Decoder overflow", p)
                            ELSE Ok(SignExt8(At(buffer, p)), p + 1)
         [] marker = 209 -> IF Overflows(p, 2, buffer) THEN Throw("Decoder overflow", p)
                            ELSE Ok(ZeroExt(Slice(buffer, p, 2)), p + 2)
         [] marker = 210 -> IF Overflows(p, 4, buffer) THEN Throw("Decoder overflow", p)
                            ELSE Ok(ZeroExt(Slice(buffer, p, 4)), p + 4)
         [] marker = 211 -> IF Overflows(p, 8, buffer) THEN Throw("Decoder overflow", p)
                            ELSE Ok(Slice(buffer, p, 8), p + 8)
         [] OTHER -> Throw("Invalid signed integer marker", p)

decodeUint(buffer, pos) ==
    LET marker == At(buffer, pos)
        p == pos + 1
    IN CASE marker = 204 -> IF Overflows(p, 1, buffer) THEN Throw("Decoder overflow", p)
                            ELSE Ok(ZeroExt(Slice(buffer, p, 1)), p + 1)
         [] marker = 205 -> IF Overflows(p, 2, buffer) THEN Throw("Decoder overflow", p)
                            ELSE Ok(ZeroExt(Slice(buffer, p, 2)), p + 2)
         [] marker = 206 -> IF Overflows(p, 4, buffer) THEN Throw("Decoder overflow", p)
                            ELSE Ok(ZeroExt(Slice(buffer, p, 4)), p + 4)
         [] marker = 207 -> IF Overflows(p, 8, buffer) THEN Throw("Decoder overflow", p)
                            ELSE Ok(Slice(buffer, p, 8), p + 8)
         [] OTHER -> Throw("Invalid unsigned integer marker", p)

\* The double a float converts to, on bit patterns: sign, exponent e (8 bits)
\* and mantissa m (23 bits) of the float; a subnormal float is normalised.
RECURSIVE Normalise(_, _)
Normalise(e, m) == IF m >= 8388608 THEN <<e, m - 8388608>> ELSE Normalise(e - 1, m * 2)

FloatToDouble(b) ==
    LET s == b[1] \div 128
        e == (b[1] % 128) * 2 + (b[2] \div 128)
        m == (b[2] % 128) * 65536 + b[3] * 256 + b[4]
        n == IF e = 0 /\ m # 0 THEN Normalise(1, m) ELSE <<e, m>>
        e64 == IF e = 0 /\ m = 0 THEN 0
               ELSE IF e = 255 THEN 2047
               ELSE n[1] - 127 + 1023
        m23 == n[2]
    IN <<s * 128 + (e64 \div 16),
         (e64 % 16) * 16 + (m23 \div 524288),
         (m23 % 524288) \div 2048,
         (m23 % 2048) \div 8,
         (m23 % 8) * 32, 0, 0, 0>>

decodeFloat(buffer, pos) ==
    LET marker == At(buffer, pos)
        p == pos + 1
    IN CASE marker = 202 -> IF Overflows(p, 4, buffer) THEN Throw("Decoder overflow", p)
                            ELSE Ok(FloatToDouble(Slice(buffer, p, 4)), p + 4)
         [] marker = 203 -> IF Overflows(p, 8, buffer) THEN Throw("Decoder overflow", p)
                            ELSE Ok(Slice(buffer, p, 8), p + 8)
         [] OTHER -> Throw("Invalid float marker", p)

\* The length prefix after the marker: [ok, len, pos], or the failure.
\* fix(marker) is the length a fix marker carries, or -1; w8, w16, w32 are
\* the markers followed by a 1-, 2-, 4-byte length, or -1.
LengthPrefix(buffer, pos, marker, fixlen, w8, w16, w32, what) ==
    IF fixlen >= 0 THEN Ok(fixlen, pos)
    ELSE IF marker = w8 THEN
        IF Overflows(pos, 1, buffer) THEN Throw("Decoder overflow", pos)
        ELSE Ok(At(buffer, pos), pos + 1)
    ELSE IF marker = w16 THEN
        IF Overflows(pos, 2, buffer) THEN Throw("Decoder overflow", pos)
        ELSE Ok(BENum(Slice(buffer, pos, 2)), pos + 2)
    ELSE IF marker = w32 THEN
        IF Overflows(pos, 4, buffer) THEN Throw("Decoder overflow", pos)
        ELSE Ok(BENum(Slice(buffer, pos, 4)), pos + 4)
    ELSE Throw(what, pos)

decodeString(buffer, pos) ==
    IF Outside(pos, 1, buffer) THEN Undefined(pos)
    ELSE
    LET marker == At(buffer, pos)
        l == LengthPrefix(buffer, pos + 1, marker,
                          IF marker >= 160 /\ marker <= 191 THEN marker % 32 ELSE -1,
                          217, 218, 219, "Invalid string marker")
    IN IF ~l.ok THEN l
       ELSE IF Overflows(l.pos, l.val, buffer) THEN Throw("Decoder overflow", l.pos)
       ELSE Ok(Slice(buffer, l.pos, l.val), l.pos + l.val)

decodeBinary(buffer, pos) ==
    LET marker == At(buffer, pos)
        l == LengthPrefix(buffer, pos + 1, marker, -1, 196, 197, 198, "Invalid binary marker")
    IN IF ~l.ok THEN l
       ELSE IF Overflows(l.pos, l.val, buffer) THEN Throw("Decoder overflow", l.pos)
       ELSE Ok(Slice(buffer, l.pos, l.val), l.pos + l.val)

\* 4 bytes copied from the buffer with no check and passed through ntohl:
\* [ok, val, pos], or undefined behaviour when they lie outside the buffer.
RawU32(buffer, pos) ==
    IF Outside(pos, 4, buffer) THEN Undefined(pos)
    ELSE Ok(BENum(Slice(buffer, pos, 4)), pos + 4)

\* 8 bytes copied from the buffer with no check and passed through ntohll
RawWord(buffer, pos) ==
    IF Outside(pos, 8, buffer) THEN Undefined(pos)
    ELSE Ok(Slice(buffer, pos, 8), pos + 8)

\* len here is the caller's len - 1; -1 stands for the size_t that wraps
\* around when the declared length is 0.
decodeDate(buffer, pos, len) ==
    IF len # 8 THEN Throw("Invalid date length", pos) ELSE RawWord(buffer, pos)

decodeDateTime(buffer, pos, len) ==
    IF len # 8 THEN Throw("Invalid datetime length", pos) ELSE RawWord(buffer, pos)

\* For len = -1 (SIZE_MAX) pos + len wraps to pos - 1, the check passes and
\* the range [pos, pos - 1) is copied.
decodeBigInt(buffer, pos, len) ==
    IF len >= 0 /\ Overflows(pos, len, buffer) THEN Throw("Decoder overflow", pos)
    ELSE IF len < 0 THEN Undefined(pos)
    ELSE Ok(Slice(buffer, pos, len), pos + len)

\* The elements are read in place (reinterpret_cast), in host byte order.
\* SIZE_MAX is 3 modulo 4 and 7 modulo 8.
decodeVector(buffer, pos, len, width, what) ==
    IF len < 0 \/ len % width # 0 THEN Throw(what, pos)
    ELSE IF Outside(pos, len, buffer) /\ len > 0 THEN Undefined(pos)
    ELSE Ok([i \in 1..(len \div width) |->
                 LET b == Slice(buffer, pos + (i - 1) * width, width)
                 IN IF host = "LE" THEN Reverse(b) ELSE b],
            pos + len)

decodeVectorFloat(buffer, pos, len) == decodeVector(buffer, pos, len, 4, "Invalid vector_float length")

decodeVectorDouble(buffer, pos, len) == decodeVector(buffer, pos, len, 8, "Invalid vector_double length")

\* The schema section of a tabular payload, all reads unchecked:
\* [ok, val |-> column names, pos]
RECURSIVE tabularSchema(_, _, _, _)
tabularSchema(buffer, pos, n, names) ==
    IF n = 0 THEN Ok(names, pos)
    ELSE LET l == RawU32(buffer, pos)
         IN IF ~l.ok THEN l
            ELSE IF Outside(l.pos, l.val + 1, buffer) THEN Undefined(l.pos)
            ELSE tabularSchema(buffer, l.pos + l.val + 1, n - 1,
                               Append(names, Slice(buffer, l.pos, l.val)))

\* case -1 of decodeExtension: the declared len itself is the payload width
decodeTimestampExt(buffer, pos, len) ==
    IF len # 4 /\ len # 8 THEN Throw("Invalid timestamp length", pos)
    ELSE IF Outside(pos, len, buffer) THEN Undefined(pos)
    ELSE Ok(ZeroExt(Slice(buffer, pos, len)), pos + len)

\* default case of decodeExtension: buffer[pos, pos + len - 1) is copied
\* unchecked; for len = 0 the range is [pos, pos - 1)
decodeGenericExt(buffer, pos, len, ext_type) ==
    IF len = 0 \/ Outside(pos, len - 1, buffer) THEN Undefined(pos)
    ELSE Ok([type |-> ext_type, data |-> Slice(buffer, pos, len - 1)], pos + len - 1)

\* decodeExtension up to the switch on the type: [ok, val |-> <<len, ext_type>>, pos]
extensionHeader(buffer, pos) ==
    LET marker == At(buffer, pos)
        l == LengthPrefix(buffer, pos + 1, marker,
                          CASE marker = 212 -> 1 [] marker = 213 -> 2 [] marker = 214 -> 4
                            [] marker = 215 -> 8 [] marker = 216 -> 16 [] OTHER -> -1,
                          199, 200, 201, "Invalid extension marker")
    IN IF ~l.ok THEN l
       ELSE IF Overflows(l.pos, 1, buffer) THEN Throw("Decoder overflow", l.pos)
       ELSE Ok(<<l.val, S8(At(buffer, l.pos))>>, l.pos + 1)

\* The cases of decodeExtension other than -10; pos is behind the type byte
decodeExtensionCase(buffer, pos, len, ext_type) ==
    CASE ext_type = -1 -> Wrap(decodeTimestampExt(buffer, pos, len), "Timestamp")
      [] ext_type = -2 -> Wrap(decodeDate(buffer, pos, len - 1), "Date")
      [] ext_type = -3 -> Wrap(decodeDateTime(buffer, pos, len - 1), "DateTime")
      [] ext_type = -4 -> Wrap(decodeBigInt(buffer, pos, len - 1), "BigInt")
      [] ext_type = -5 -> Wrap(decodeVectorFloat(buffer, pos, len - 1), "VectorFloat")
      [] ext_type = -6 -> Wrap(decodeVectorDouble(buffer, pos, len - 1), "VectorDouble")
      [] OTHER -> Wrap(decodeGenericExt(buffer, pos, len, ext_type), "Extension")

\* case -10 of decodeExtension up to the data section: header and schema,
\* all reads unchecked: [ok, val |-> [names, num_rows], pos]
tabularHeader(buffer, pos) ==
    LET version == RawU32(buffer, pos) IN
    IF ~version.ok THEN version
    ELSE IF version.val # 1 THEN Throw("Unsupported tabular version", version.pos)
    ELSE LET num_columns == RawU32(buffer, version.pos) IN
    IF ~num_columns.ok THEN num_columns
    ELSE LET num_rows == RawU32(buffer, num_columns.pos) IN
    IF ~num_rows.ok THEN num_rows
    ELSE LET schema == tabularSchema(buffer, num_rows.pos, num_columns.val, <<>>) IN
    IF ~schema.ok THEN schema
    ELSE IF num_rows.val >= Huge THEN Throw("std::bad_alloc", schema.pos)
    ELSE Ok([names |-> schema.val, num_rows |-> num_rows.val], schema.pos)

-----------------------------------------------------------------------------
(* Decoder::decode(buffer, pos) calls itself for the elements of an Array, *)
(* the values of a Map and the cells of a tabular payload.  A call of      *)
(* Decoder::decode(buffer) is a record                                     *)
(*   pc      "value": Decoder::decode(buffer, pos) is entered at pos       *)
(*           "return": a call of it has returned ret to the loop that made *)
(*           it;  "done": the outermost call has returned or thrown        *)
(*   buffer, pos   the buffer and the cursor shared by all the calls       *)
(*   stack   one frame per decodeArray / decodeMap / tabular loop that is  *)
(*           waiting for a nested call, outermost first                    *)
(*   ret     the value the last call returned                              *)
(*   ok, val, err, ub   the result, once pc = "done"                       *)
(* with the observations that the code itself does not keep:               *)
(*   depth   the largest number of frames there has been                   *)
(*   ko      "KeyOrder" / "DuplicateKey" when a map key arrived below /    *)
(*           equal to its predecessor in the same map, else "none"         *)
(*   inflated, wire   whether decompress() was called and whether          *)
(*           Decoder::decode was entered                                   *)
(***************************************************************************)

Call(pc, buffer, inflated, wire) ==
    [pc |-> pc, buffer |-> buffer, pos |-> 0, stack |-> <<>>, ret |-> NilV,
     ok |-> FALSE, val |-> NilV, err |-> "", ub |-> FALSE,
     depth |-> 0, ko |-> "none", inflated |-> inflated, wire |-> wire]

\* The exception of r, or its undefined behaviour, ends the call
Failed(st, r) ==
    [st EXCEPT !.pc = "done", !.err = r.err, !.ub = r.ub, !.pos = r.pos,
               !.stack = <<>>, !.ret = NilV]

\* A call of Decoder::decode(buffer, pos) returns val
Returned(st, val, pos) == [st EXCEPT !.pc = "return", !.ret = val, !.pos = pos]

Top(st) == st.stack[Len(st.stack)]

Pop(st) == [st EXCEPT !.stack = SubSeq(@, 1, Len(@) - 1)]

SetTop(st, frame) == [st EXCEPT !.stack = [@ EXCEPT ![Len(@)] = frame]]

\* A loop is entered: its frame stays while the nested calls run
Push(st, frame, pos) ==
    [st EXCEPT !.stack = Append(@, frame), !.pos = pos,
               !.depth = Max(@, Len(st.stack) + 1)]

FirstKo(a, b) == IF a # "none" THEN a ELSE b

\* decodeMap, loop body up to the nested call: String key(decodeString(..));
\* the top frame is a map with entries left
decodeMapKey(st) ==
    LET f == Top(st)
        key == decodeString(st.buffer, st.pos)
        ko == IF f.prev = <<>> THEN "none"
              ELSE IF key.val = f.prev[1] THEN "DuplicateKey"
              ELSE IF StrLess(key.val, f.prev[1]) THEN "KeyOrder"
              ELSE "none"
    IN IF ~key.ok THEN Failed(st, key)
       ELSE [SetTop(st, [f EXCEPT !.key = key.val, !.prev = <<key.val>>])
                EXCEPT !.pc = "value", !.pos = key.pos, !.ko = FirstKo(@, ko)]

\* decodeMap up to the first nested call
decodeMap(st) ==
    LET marker == At(st.buffer, st.pos)
        l == LengthPrefix(st.buffer, st.pos + 1, marker,
                          IF marker >= 128 /\ marker <= 143 THEN marker % 16 ELSE -1,
                          -1, 222, 223, "Invalid map marker")
    IN IF ~l.ok THEN Failed(st, l)
       ELSE IF l.val = 0 THEN Returned(st, MapV(<<>>), l.pos)
       ELSE decodeMapKey(Push(st, [kind |-> "map", n |-> l.val, entries |-> <<>>,
                                   key |-> <<>>, prev |-> <<>>], l.pos))

\* decodeArray up to the first nested call
decodeArray(st) ==
    LET marker == At(st.buffer, st.pos)
        l == LengthPrefix(st.buffer, st.pos + 1, marker,
                          IF marker >= 144 /\ marker <= 159 THEN marker % 16 ELSE -1,
                          -1, 220, 221, "Invalid array marker")
    IN IF ~l.ok THEN Failed(st, l)
       ELSE IF l.val = 0 THEN Returned(st, ArrayV(<<>>), l.pos)
       ELSE [Push(st, [kind |-> "array", n |-> l.val, items |-> <<>>], l.pos)
                EXCEPT !.pc = "value"]

\* The data section of a tabular payload from column f.i on, up to the next
\* nested call: the unchecked column_len, and for a table without rows the
\* cursor set to column_data_start + column_len at once
RECURSIVE tabularColumn(_)
tabularColumn(st) ==
    LET f == Top(st) IN
    IF f.i > Len(f.names) THEN Returned(Pop(st), ArrayV(f.rows), st.pos)
    ELSE LET column_len == RawU32(st.buffer, st.pos)
         IN IF ~column_len.ok THEN Failed(st, column_len)
            ELSE IF Len(f.rows) = 0
            THEN tabularColumn([SetTop(st, [f EXCEPT !.i = @ + 1])
                                   EXCEPT !.pos = column_len.pos + column_len.val])
            ELSE [SetTop(st, [f EXCEPT !.j = 1, !.column_end = column_len.pos + column_len.val])
                     EXCEPT !.pc = "value", !.pos = column_len.pos]

\* decodeExtension up to its first nested call (only case -10 makes any)
decodeExtension(st) ==
    LET h == extensionHeader(st.buffer, st.pos) IN
    IF ~h.ok THEN Failed(st, h)
    ELSE IF h.val[2] = -10 THEN
        LET t == tabularHeader(st.buffer, h.pos)
        IN IF ~t.ok THEN Failed(st, t)
           ELSE tabularColumn(Push(st, [kind |-> "tabular", names |-> t.val.names,
                                        rows |-> [j \in 1..t.val.num_rows |-> MapV(<<>>)],
                                        i |-> 1, j |-> 1, column_end |-> 0], t.pos))
    ELSE LET r == decodeExtensionCase(st.buffer, h.pos, h.val[1], h.val[2])
         IN IF ~r.ok THEN Failed(st, r) ELSE Returned(st, r.val, r.pos)

\* A dispatch that lets the sign of the carried value choose the variant of
\* the tags 0xd0..0xd3
decodeBySign(st) ==
    IF Overflows(st.pos, 1, st.buffer) THEN Failed(st, Throw("Decoder overflow", st.pos))
    ELSE
    LET buffer == st.buffer
        pos == st.pos
        marker == At(buffer, pos)
        Scalar(r) == IF ~r.ok THEN Failed(st, r) ELSE Returned(st, r.val, r.pos)
        signed == decodeInt(buffer, pos)
    IN CASE marker <= 127 -> Returned(st, UintV(ZeroExt(<<marker>>)), pos + 1)
         [] marker >= 224 -> Returned(st, IntV(SignExt8(marker)), pos + 1)
         [] marker >= 128 /\ marker <= 143 -> decodeMap(st)
         [] marker >= 144 /\ marker <= 159 -> decodeArray(st)
         [] marker >= 160 /\ marker <= 191 -> Scalar(Wrap(decodeString(buffer, pos), "String"))
         [] marker = 192 -> Scalar(Wrap(decodeNil(pos), "Nil"))
         [] marker \in {194, 195} -> Scalar(Wrap(decodeBool(buffer, pos), "Bool"))
         [] marker \in {196, 197, 198} -> Scalar(Wrap(decodeBinary(buffer, pos), "Binary"))
         [] marker \in {202, 203} -> Scalar(Wrap(decodeFloat(buffer, pos), "Float"))
         [] marker \in {204, 205, 206, 207} -> Scalar(Wrap(decodeUint(buffer, pos), "Uint"))
         [] marker \in {208, 209, 210, 211} ->
                Scalar(Wrap(signed, IF signed.ok /\ signed.val[1] < 128 THEN "Uint" ELSE "Int"))
         [] marker \in {212, 213, 214, 215, 216, 199, 200, 201} -> decodeExtension(st)
         [] OTHER -> Failed(st, Throw("Unknown marker", pos))

\* Decoder::decode(buffer, pos) up to its return or its first nested call
decode(st) ==
    IF Overflows(st.pos, 1, st.buffer) THEN Failed(st, Throw("Decoder overflow", st.pos))
    ELSE
    LET buffer == st.buffer
        pos == st.pos
        marker == At(buffer, pos)
        Scalar(r) == IF ~r.ok THEN Failed(st, r) ELSE Returned(st, r.val, r.pos)
    IN CASE marker <= 127 -> Returned(st, UintV(ZeroExt(<<marker>>)), pos + 1)
         [] marker >= 224 -> Returned(st, IntV(SignExt8(marker)), pos + 1)
         [] marker >= 128 /\ marker <= 143 -> decodeMap(st)
         [] marker >= 144 /\ marker <= 159 -> decodeArray(st)
         [] marker >= 160 /\ marker <= 191 -> Scalar(Wrap(decodeString(buffer, pos), "String"))
         [] marker = 192 -> Scalar(Wrap(decodeNil(pos), "Nil"))
         [] marker \in {194, 195} -> Scalar(Wrap(decodeBool(buffer, pos), "Bool"))
         [] marker \in {196, 197, 198} -> Scalar(Wrap(decodeBinary(buffer, pos), "Binary"))
         [] marker \in {202, 203} -> Scalar(Wrap(decodeFloat(buffer, pos), "Float"))
         [] marker \in {204, 205, 206, 207} -> Scalar(Wrap(decodeUint(buffer, pos), "Uint"))
         [] marker \in {208, 209, 210, 211} -> Scalar(Wrap(decodeInt(buffer, pos), "Int"))
         [] marker \in {212, 213, 214, 215, 216, 199, 200, 201} -> decodeExtension(st)
         [] OTHER -> Failed(st, Throw("Unknown marker", pos))

\* A nested call has returned st.ret: the loop that made it stores the value
\* and goes on to its next nested call or to its own return.  With no loop
\* waiting, Decoder::decode(buffer) returns the value; it does not look at
\* the cursor.
return(st) ==
    IF Len(st.stack) = 0 THEN [st EXCEPT !.pc = "done", !.ok = TRUE, !.val = st.ret]
    ELSE
    LET f == Top(st) IN
    CASE f.kind = "array" ->
            LET items == Append(f.items, st.ret)
            IN IF f.n = 1 THEN Returned(Pop(st), ArrayV(items), st.pos)
               ELSE [SetTop(st, [f EXCEPT !.n = @ - 1, !.items = items]) EXCEPT !.pc = "value"]
      [] f.kind = "map" ->
            LET entries == MapPut(f.entries, f.key, st.ret)
            IN IF f.n = 1 THEN Returned(Pop(st), MapV(entries), st.pos)
               ELSE decodeMapKey(SetTop(st, [f EXCEPT !.n = @ - 1, !.entries = entries]))
      [] f.kind = "tabular" ->
            LET rows == [f.rows EXCEPT ![f.j] = MapV(MapPut(@.v, f.names[f.i], st.ret))]
            IN IF f.j = Len(f.rows)
               THEN tabularColumn([SetTop(st, [f EXCEPT !.rows = rows, !.i = @ + 1])
                                      EXCEPT !.pos = f.column_end])
               ELSE [SetTop(st, [f EXCEPT !.rows = rows, !.j = @ + 1]) EXCEPT !.pc = "value"]

-----------------------------------------------------------------------------
(* is_tabular and the two encoders of a whole Value *)

is_tabular(arr) ==
    IF Len(arr) = 0 THEN FALSE
    ELSE IF arr[1].t # "Map" \/ Len(arr[1].v) = 0 THEN FALSE
    ELSE LET keys == {arr[1].v[i].k : i \in 1..Len(arr[1].v)}
         IN \A i \in 2..Len(arr) :
                /\ arr[i].t = "Map"
                /\ Len(arr[i].v) = Cardinality(keys)
                /\ \A j \in 1..Len(arr[i].v) : arr[i].v[j].k \in keys

\* The variants EncodeVisitor has an overload for (StringView is encoded as
\* its String).  std::visit has no case for the others.
RECURSIVE Visitable(_)
Visitable(v) ==
    CASE v.t \in {"Nil", "Bool", "Int", "Uint", "Float", "String", "Binary",
                  "Extension", "Timestamp", "Date", "BigInt"} -> TRUE
      [] v.t = "Array" -> \A i \in 1..Len(v.v) : Visitable(v.v[i])
      [] v.t = "Map" -> \A i \in 1..Len(v.v) : Visitable(v.v[i].v)
      [] OTHER -> FALSE

\* std::visit(EncodeVisitor{encoder}, value) of btoon.cpp
RECURSIVE EncodeVisitor(_)
EncodeVisitor(v) ==
    CASE v.t = "Nil" -> encodeNil
      [] v.t = "Bool" -> encodeBool(v.v)
      [] v.t = "Int" -> encodeInt(v.v)
      [] v.t = "Uint" -> encodeUint(v.v)
      [] v.t = "Float" -> encodeFloat(v.v)
      [] v.t = "String" -> encodeString(v.v)
      [] v.t = "Binary" -> encodeBinary(v.v)
      [] v.t = "Extension" -> encodeExtension(v.v.type, v.v.data)
      [] v.t = "Timestamp" -> encodeTimestamp(v.v)
      [] v.t = "Date" -> encodeDate(v.v)
      [] v.t = "BigInt" -> encodeBigInt(v.v)
      [] v.t = "Array" -> encodeArray([i \in 1..Len(v.v) |-> EncodeVisitor(v.v[i])])
      [] v.t = "Map" ->
            encodeMap([i \in 1..Len(v.v) |-> [k |-> v.v[i].k, v |-> EncodeVisitor(v.v[i].v)]])

\* The column type hint encodeColumnar takes from the first row
TypeHint(v) ==
    CASE v.t = "Nil" -> 0 [] v.t = "Bool" -> 1 [] v.t = "Int" -> 2 [] v.t = "Uint" -> 3
      [] v.t = "Float" -> 4 [] v.t = "String" -> 5 [] OTHER -> 0

RECURSIVE Encoder_encode(_)

\* Encoder::encodeColumnar for an array that is_tabular accepts; cells(row)
\* are the row's cells in column order, each through Encoder::encode
encodeColumnar(arr) ==
    IF ~is_tabular(arr) THEN encodeArray([i \in 1..Len(arr) |-> Encoder_encode(arr[i])])
    ELSE
    LET first_row == arr[1].v
        column_names == [i \in 1..Len(first_row) |-> first_row[i].k]
        schema_bytes ==
            <<0, 0, 0, 1>> \o BE(I64(Len(column_names)), 4)
            \o Concat([i \in 1..Len(column_names) |->
                          BE(I64(Len(column_names[i])), 4) \o column_names[i]])
            \o [i \in 1..Len(column_names) |-> TypeHint(MapAt(first_row, column_names[i]))]
        rows_bytes ==
            BE(I64(Len(arr)), 4)
            \o Concat([r \in 1..Len(arr) |->
                          Concat([i \in 1..Len(column_names) |->
                                     Encoder_encode(MapAt(arr[r].v, column_names[i]))])])
    IN encodeExtension(-10, schema_bytes \o rows_bytes)

\* Encoder::encode(value) of encoder.cpp
Encoder_encode(v) ==
    CASE v.t = "Nil" -> encodeNil
      [] v.t = "Bool" -> encodeBool(v.v)
      [] v.t = "Int" -> encodeInt(v.v)
      [] v.t = "Uint" -> encodeUint(v.v)
      [] v.t = "Float" -> encodeFloat(v.v)
      [] v.t = "String" -> encodeString(v.v)
      [] v.t = "Binary" -> encodeBinary(v.v)
      [] v.t = "Extension" -> encodeExtension(v.v.type, v.v.data)
      [] v.t = "Timestamp" -> encodeTimestamp(v.v)
      [] v.t = "Date" -> encodeDate(v.v)
      [] v.t = "DateTime" -> encodeDateTime(v.v)
      [] v.t = "BigInt" -> encodeBigInt(v.v)
      [] v.t = "VectorFloat" -> encodeVectorFloat(v.v)
      [] v.t = "VectorDouble" -> encodeVectorDouble(v.v)
      [] v.t = "Array" ->
            IF is_tabular(v.v) THEN encodeColumnar(v.v)
            ELSE encodeArray([i \in 1..Len(v.v) |-> Encoder_encode(v.v[i])])
      [] v.t = "Map" ->
            encodeMap([i \in 1..Len(v.v) |-> [k |-> v.v[i].k, v |-> Encoder_encode(v.v[i].v)]])

-----------------------------------------------------------------------------
(* Compression: src/src/compression.cpp.  zlib, LZ4 and zstd are libraries  *)
(* outside the repository; each is stood for by a container that its own   *)
(* inverse opens and that nothing else opens.                               *)

ZLIB == 0
LZ4 == 1
ZSTD == 2
NONE == 255

RECURSIVE SumBytes(_)
SumBytes(bytes) == IF Len(bytes) = 0 THEN 0 ELSE Head(bytes) + SumBytes(Tail(bytes))

Adler(bytes) == LET a == (1 + SumBytes(bytes)) % 65521 IN <<0, 0, a \div 256, a % 256>>

\* deflate(Z_FINISH): stream header, the data, the checksum
compress_zlib(bytes, level) ==
    IF Len(bytes) = 0 THEN Ok(<<>>, 0)
    ELSE Ok(<<120, 156>> \o bytes \o Adler(bytes), 0)

\* inflate: a wrong header or checksum is Z_DATA_ERROR; a stream that ends
\* early ends the loop with what was inflated so far
decompress_zlib(bytes) ==
    IF Len(bytes) = 0 THEN Ok(<<>>, 0)
    ELSE IF Len(bytes) < 2 THEN Ok(<<>>, 0)
    ELSE IF SubSeq(bytes, 1, 2) # <<120, 156>> THEN Throw("Zlib decompression error", 0)
    ELSE IF Len(bytes) < 6 THEN Ok(<<>>, 0)
    ELSE LET body == SubSeq(bytes, 3, Len(bytes) - 4)
         IN IF SubSeq(bytes, Len(bytes) - 3, Len(bytes)) # Adler(body)
            THEN Throw("Zlib decompression error", 0)
            ELSE Ok(body, 0)

\* LZ4_compress_default: a block of literals
compress_lz4(bytes, level) ==
    IF Len(bytes) = 0 THEN Ok(<<>>, 0) ELSE Ok(<<Len(bytes) % 256>> \o bytes, 0)

decompress_lz4(bytes) ==
    Throw("LZ4 decompression requires original size; not yet implemented in BTOON header.", 0)

\* ZSTD_compress: frame magic, content size, the data
compress_zstd(bytes, level) ==
    IF Len(bytes) = 0 THEN Ok(<<>>, 0)
    ELSE Ok(<<40, 181, 47, 253, Len(bytes) % 256>> \o bytes, 0)

decompress_zstd(bytes) ==
    IF Len(bytes) < 5 \/ SubSeq(bytes, 1, 4) # <<40, 181, 47, 253>>
    THEN Throw("ZSTD decompression failed: unable to determine decompressed size.", 0)
    ELSE IF bytes[5] # (Len(bytes) - 5) % 256 THEN Throw("ZSTD decompression failed: ", 0)
    ELSE Ok(SubSeq(bytes, 6, Len(bytes)), 0)

compress(algorithm, bytes, level) ==
    CASE algorithm = ZLIB -> compress_zlib(bytes, IF level = 0 THEN 6 ELSE level)
      [] algorithm = LZ4 /\ with_lz4 -> compress_lz4(bytes, level)
      [] algorithm = ZSTD /\ with_zstd -> compress_zstd(bytes, level)
      [] OTHER -> Throw("Unsupported compression algorithm", 0)

decompress(algorithm, bytes) ==
    CASE algorithm = ZLIB -> decompress_zlib(bytes)
      [] algorithm = LZ4 /\ with_lz4 -> decompress_lz4(bytes)
      [] algorithm = ZSTD /\ with_zstd -> decompress_zstd(bytes)
      [] OTHER -> Throw("Unsupported compression algorithm", 0)

-----------------------------------------------------------------------------
(* The public entry points: src/src/btoon.cpp *)

BTOON_MAGIC == <<66, 84, 79, 78>>

HeaderSize == 16

\* EncodeOptions{} and DecodeOptions{} of btoon.h
DefaultEncodeOptions ==
    [compress |-> FALSE, compression_level |-> 0, compression_algorithm |-> NONE,
     auto_tabular |-> TRUE]

DefaultDecodeOptions == [auto_decompress |-> TRUE, strict |-> TRUE]

\* encode(value, options): val is the bytes returned
btoon_encode(v, options) ==
    LET encoded_data == EncodeVisitor(v) IN
    IF options.compress THEN
        LET algo == options.compression_algorithm
            c == compress(algo, encoded_data, options.compression_level)
        IN IF ~c.ok THEN c
           ELSE Ok(BTOON_MAGIC \o <<1, algo, 0, 0>>
                   \o BE(I64(Len(c.val)), 4) \o BE(I64(Len(encoded_data)), 4)
                   \o c.val, 0)
    ELSE Ok(encoded_data, 0)

\* A decode that opens a frame without comparing its sizes
btoon_decode_unchecked(bytes, options) ==
    IF options.auto_decompress THEN
        IF Len(bytes) < HeaderSize
        THEN Failed(Call("done", bytes, FALSE, FALSE),
                    Throw("Invalid compressed data: header too small.", 0))
        ELSE IF Slice(bytes, 0, 4) # BTOON_MAGIC
        THEN Failed(Call("done", bytes, FALSE, FALSE),
                    Throw("Invalid compressed data: incorrect magic number.", 0))
        ELSE LET decompressed_data ==
                     decompress(At(bytes, 5), Slice(bytes, HeaderSize, Len(bytes) - HeaderSize))
             IN IF ~decompressed_data.ok
                THEN Failed(Call("done", bytes, TRUE, FALSE), decompressed_data)
                ELSE Call("value", decompressed_data.val, TRUE, TRUE)
    ELSE Call("value", bytes, FALSE, TRUE)

\* decode(data, options) up to its throw or to the call of Decoder::decode.
\* The option the code tests is written options.decompress; DecodeOptions
\* declares it as auto_decompress.
btoon_decode(bytes, options) ==
    IF options.auto_decompress THEN
        IF Len(bytes) < HeaderSize
        THEN Failed(Call("done", bytes, FALSE, FALSE),
                    Throw("Invalid compressed data: header too small.", 0))
        ELSE IF Slice(bytes, 0, 4) # BTOON_MAGIC
        THEN Failed(Call("done", bytes, FALSE, FALSE),
                    Throw("Invalid compressed data: incorrect magic number.", 0))
        ELSE LET algo == At(bytes, 5)
                 compressed_payload == Slice(bytes, HeaderSize, Len(bytes) - HeaderSize)
             IN IF BE(I64(Len(compressed_payload)), 4) # Slice(bytes, 8, 4)
                THEN Failed(Call("done", bytes, FALSE, FALSE),
                            Throw("Compressed data size mismatch.", 0))
                ELSE LET decompressed_data == decompress(algo, compressed_payload)
                     IN IF ~decompressed_data.ok
                        THEN Failed(Call("done", bytes, TRUE, FALSE), decompressed_data)
                        ELSE IF BE(I64(Len(decompressed_data.val)), 4) # Slice(bytes, 12, 4)
                        THEN Failed(Call("done", bytes, TRUE, FALSE),
                                    Throw("Decompressed data size mismatch.", 0))
                        ELSE Call("value", decompressed_data.val, TRUE, TRUE)
    ELSE Call("value", bytes, FALSE, TRUE)

-----------------------------------------------------------------------------
(* The inputs the calls are made with *)

\* Deepest nesting among the byte inputs: one more than max_depth
max_depth == 128
MaxNest == 129

\* Length of the long String and size of the large Array and Map
LongLen == 32
LargeCount == 16

A(c) == <<96 + c>>          \* the one-letter string "a", "b", ...

Word(n) == I64(n)

Values == <<
    NilV, BoolV(TRUE), BoolV(FALSE),
    IntV(Word(0)), IntV(Word(42)), IntV(Word(-1)), IntV(Word(-12345)),
    IntV(Word(1000000)), IntV(Word(-33)),
    IntV(Word(-15)), IntV(Word(-32)), IntV(Word(-128)), IntV(Word(-129)),
    IntV(Word(-32769)), IntV(<<128, 0, 0, 0, 0, 0, 0, 0>>),
    UintV(Word(127)), UintV(Word(128)), UintV(Word(256)), UintV(Word(65536)),
    UintV(<<0, 0, 0, 1, 0, 0, 0, 0>>),
    UintV(Word(0)), UintV(Word(42)), UintV(Word(255)), UintV(Word(65535)),
    UintV(<<0, 0, 0, 0, 255, 255, 255, 255>>),
    FloatV(Word(0)), FloatV(<<64, 9, 33, 249, 240, 27, 134, 110>>),
    StringV(<<>>), StringV(<<104, 105>>), StringV([i \in 1..LongLen |-> 122]),
    BinaryV(<<1, 2, 3>>),
    TimestampV(Word(1234567890)), DateV(<<0, 0, 0, 2, 76, 176, 22, 234>>),
    BigIntV(<<18, 52, 86, 120>>),
    ExtensionV(5, <<1, 2, 3>>), ExtensionV(5, <<>>), ExtensionV(5, <<7>>),
    ExtensionV(0, <<1, 2>>), ExtensionV(127, <<1, 2, 3, 4>>),
    ExtensionV(5, [i \in 1..8 |-> i]), ExtensionV(5, [i \in 1..16 |-> i]),
    ArrayV(<<>>),
    ArrayV(<<IntV(Word(1)), IntV(Word(2)), IntV(Word(3))>>),
    ArrayV(<<UintV(Word(1)), StringV(<<116, 119, 111>>), BoolV(TRUE), NilV>>),
    ArrayV([i \in 1..LargeCount |-> NilV]),
    MapV(<<>>),
    MapV(MapOf(<<<<A(1), IntV(Word(1))>>, <<A(2), StringV(<<116, 119, 111>>)>>>>)),
    MapV(MapOf(<<<<A(2), UintV(Word(1))>>, <<A(1), ArrayV(<<StringV(A(24)), NilV>>)>>>>)),
    MapV(MapOf([i \in 1..LargeCount |-> <<A(i), NilV>>])),
    MapV(MapOf(<<<<<<110, 97, 109, 101>>, StringV(<<65, 108, 105, 99, 101>>)>>,
                 <<<<97, 103, 101>>, UintV(Word(30))>>>>)),
    MapV(MapOf(<<<<<<200>>, NilV>>, <<<<97, 98>>, NilV>>, <<A(1), NilV>>>>)),
    MapV(MapOf(<<<<A(2), MapV(MapOf(<<<<A(4), NilV>>, <<A(3), BoolV(TRUE)>>>>))>>,
                 <<A(1), ArrayV(<<MapV(MapOf(<<<<A(6), NilV>>, <<A(5), NilV>>>>))>>)>>>>)),
    ArrayV(<<MapV(MapOf(<<<<A(1), IntV(Word(1))>>, <<A(2), StringV(A(24))>>>>)),
             MapV(MapOf(<<<<A(1), IntV(Word(2))>>, <<A(2), StringV(A(25))>>>>))>>),
    ArrayV(<<MapV(MapOf(<<<<A(1), UintV(Word(1))>>, <<A(2), StringV(A(24))>>>>)),
             MapV(MapOf(<<<<A(1), UintV(Word(2))>>, <<A(2), StringV(A(25))>>>>))>>),
    ArrayV(<<MapV(MapOf(<<<<A(1), UintV(Word(1))>>>>))>>),
    ArrayV(<<MapV(MapOf(<<<<A(1), UintV(Word(1))>>>>)), MapV(MapOf(<<<<A(2), UintV(Word(2))>>>>))>>),
    ArrayV(<<MapV(MapOf(<<<<A(1), UintV(Word(1))>>>>)), NilV>>)
>>

\* Values of the variants only Encoder::encode has a case for
EncoderValues == <<
    DateTimeV(Word(5)), VectorFloatV(<<<<63, 128, 0, 0>>>>),
    VectorDoubleV(<<<<63, 240, 0, 0, 0, 0, 0, 0>>>>),
    ArrayV(<<MapV(MapOf(<<<<A(1), UintV(Word(1))>>, <<A(2), StringV(A(24))>>>>)),
             MapV(MapOf(<<<<A(1), UintV(Word(2))>>, <<A(2), StringV(A(25))>>>>))>>)
>>

EncodeOptionsSet ==
    {[compress |-> FALSE, compression_level |-> 0, compression_algorithm |-> NONE,
      auto_tabular |-> t] : t \in BOOLEAN}
    \cup {[compress |-> TRUE, compression_level |-> 0, compression_algorithm |-> a,
           auto_tabular |-> TRUE] : a \in {NONE, ZLIB, LZ4, ZSTD}}

DecodeOptionsSet == [auto_decompress : BOOLEAN, strict : BOOLEAN]

\* n arrays of one element inside each other around a Nil
Nested(n) == [i \in 1..(n + 1) |-> IF i <= n THEN 145 ELSE 192]

\* A compression frame with the given header fields around a payload
Frame(version, algo, compressed_size, uncompressed_size, payload) ==
    BTOON_MAGIC \o <<version, algo, 0, 0>> \o compressed_size \o uncompressed_size \o payload

Zeros(n) == [i \in 1..n |-> 0]

Inputs == <<
    <<192>>,                                   \* Nil
    <<42>>,                                    \* positive fixint
    <<244>>,                                   \* negative fixint -12
    <<208, 5>>, <<209, 0, 5>>,                 \* int8 and int16 carrying 5
    <<210, 0, 0, 0, 5>>, <<211, 0, 0, 0, 0, 0, 0, 0, 5>>,
    <<204, 200>>, <<205, 1, 0>>,               \* uint8 200, uint16 256
    <<206, 0, 1, 0, 0>>, <<207, 255, 255, 255, 255, 255, 255, 255, 255>>,
    <<192, 192>>,                              \* Nil and a trailing byte
    <<146, 1, 2, 195>>,                        \* array of 2 and a trailing byte
    <<130, 161, 98, 1, 161, 97, 2>>,           \* {"b": 1, "a": 2} in that order
    <<130, 161, 97, 1, 161, 97, 2>>,           \* {"a": 1, "a": 2}
    <<130, 161, 97, 1, 161, 98, 2>>,           \* {"a": 1, "b": 2}
    <<218, 0, 16, 104, 105>>,                  \* str16 declaring 16 bytes, 2 there
    <<217, 2, 104, 105>>,                      \* str8 "hi"
    <<165, 104, 105>>,                         \* fixstr declaring 5 bytes, 2 there
    <<196, 16, 1>>,                            \* bin8 declaring 16 bytes, 1 there
    <<220, 0, 1, 192>>,                        \* array16 of one Nil
    <<222, 0, 1, 161, 97, 192>>,               \* map16 {"a": Nil}
    <<129>>,                                   \* fixmap of 1 with nothing behind
    <<212, 246>>,                              \* fixext1, type -10, no payload
    <<212, 246, 0>>,                           \* fixext1, type -10, one byte
    <<199, 23, 246, 0, 0, 0, 1, 0, 0, 0, 1, 0, 0, 0, 1,    \* tabular: 1 column, 1 row,
      0, 0, 0, 1, 97, 0, 0, 0, 0, 1, 192>>,                \* "a", column of 1 byte: Nil
    <<199, 23, 246, 0, 0, 0, 1, 0, 0, 0, 1, 0, 0, 0, 1,    \* the same with a declared
      0, 0, 0, 1, 97, 0, 0, 0, 0, 0, 192>>,                \* column length of 0
    <<199, 0, 5>>,                             \* ext8 of declared length 0
    <<199, 0, 252>>,                           \* ext8, type -4, declared length 0
    <<199, 3, 5, 1, 2, 3>>,                    \* ext8, type 5, three bytes
    <<215, 254, 0, 0, 0>>,                     \* fixext8, type -2, 3 bytes there
    <<193>>,                                   \* a byte that is no tag
    Nested(1), Nested(max_depth), Nested(MaxNest),
    Frame(1, ZLIB, <<0, 0, 0, 16>>, <<64, 0, 0, 0>>, Zeros(16)),
    Frame(1, ZLIB, <<0, 0, 0, 7>>, <<0, 0, 0, 1>>, compress_zlib(<<192>>, 6).val),
    Frame(1, ZLIB, <<0, 0, 0, 7>>, <<0, 0, 0, 2>>, compress_zlib(<<192>>, 6).val),
    Frame(1, ZLIB, <<0, 0, 0, 9>>, <<0, 0, 0, 1>>, compress_zlib(<<192>>, 6).val),
    Frame(2, ZLIB, <<0, 0, 0, 7>>, <<0, 0, 0, 1>>, compress_zlib(<<192>>, 6).val),
    Frame(1, NONE, <<0, 0, 0, 1>>, <<0, 0, 0, 1>>, <<192>>),
    Frame(1, ZLIB, <<0, 0, 0, 8>>, <<0, 0, 0, 2>>, compress_zlib(<<208, 5>>, 6).val),
    BTOON_MAGIC \o Zeros(12)
>>

-----------------------------------------------------------------------------
(* SchemaRegistry: src/src/schema.cpp.  schemas_ is an unordered_map from  *)
(* a name to a std::map from SchemaVersion to shared_ptr<Schema>: here a   *)
(* function from the names it holds to functions from the versions they    *)
(* hold to schemas.                                                        *)

Names == {"user", "order"}

\* SchemaVersion(major, minor, patch)
Versions == {<<1, 0, 0>>, <<1, 0, 3>>, <<1, 1, 0>>, <<2, 0, 0>>}

\* The Schema objects the callers hold: two of every version
Schemas == [id : {"s", "t"}, version : Versions]

\* nullptr
Null == [id |-> "nullptr", version |-> <<>>]

\* The order of SchemaVersion that std::map sorts by: major, then minor,
\* then patch
VersionLess(a, b) ==
    \/ a[1] < b[1]
    \/ a[1] = b[1] /\ a[2] < b[2]
    \/ a[1] = b[1] /\ a[2] = b[2] /\ a[3] < b[3]

NoSchemas == [n \in {} |-> [v \in {} |-> Null]]

\* it->second.rbegin()->first of a non-empty std::map
LastVersion(versions) ==
    CHOOSE v \in DOMAIN versions : \A w \in DOMAIN versions : w = v \/ VersionLess(w, v)

\* The keys of a std::map in iteration order
RECURSIVE InOrder(_)
InOrder(keys) ==
    IF keys = {} THEN <<>>
    ELSE LET least == CHOOSE v \in keys : \A w \in keys : w = v \/ VersionLess(v, w)
         IN <<least>> \o InOrder(keys \ {least})

registerSchema(S, name, schema) ==
    LET versions == IF name \in DOMAIN S THEN S[name] ELSE [v \in {} |-> Null]
        put == [v \in DOMAIN versions \cup {schema.version} |->
                   IF v = schema.version THEN schema ELSE versions[v]]
    IN [n \in DOMAIN S \cup {name} |-> IF n = name THEN put ELSE S[n]]

\* getSchema(name)
getSchema(S, name) ==
    IF name \in DOMAIN S /\ DOMAIN S[name] # {} THEN S[name][LastVersion(S[name])]
    ELSE Null

\* getSchema(name, version)
getSchemaVersion(S, name, version) ==
    IF name \in DOMAIN S /\ version \in DOMAIN S[name] THEN S[name][version]
    ELSE Null

getVersions(S, name) ==
    IF name \in DOMAIN S THEN InOrder(DOMAIN S[name]) ELSE <<>>

getLatestSchema(S, name) == getSchema(S, name)

\* removeSchema(name)
removeSchema(S, name) == [n \in DOMAIN S \ {name} |-> S[n]]

\* A removal of one version that drops the name with all its versions
removeEveryVersion(S, name, version) == [n \in DOMAIN S \ {name} |-> S[n]]

\* removeSchema(name, version)
removeSchemaVersion(S, name, version) ==
    IF name \in DOMAIN S
    THEN LET rest == [v \in DOMAIN S[name] \ {version} |-> S[name][v]]
         IN IF DOMAIN rest = {} THEN [n \in DOMAIN S \ {name} |-> S[n]]
            ELSE [S EXCEPT ![name] = rest]
    ELSE S

clear(S) == NoSchemas

\* No RleCodec call has been made
NoRle ==
    [op |-> "none", data |-> <<>>, bytes |-> <<>>, pos |-> 0, items |-> <<>>,
     part |-> "value", held |-> NilV, run |-> Call("none", <<>>, FALSE, FALSE),
     result |-> Throw("no call", 0)]

-----------------------------------------------------------------------------
(* RleCodec: src/src/rle_codec.cpp *)

\* The std::visit of RleCodec::encode on last_value: it has no case for an
\* Array, a Map, a DateTime or a vector and writes nothing for them
RleVisit(v) ==
    CASE v.t = "Nil" -> encodeNil
      [] v.t = "Bool" -> encodeBool(v.v)
      [] v.t = "Int" -> encodeInt(v.v)
      [] v.t = "Uint" -> encodeUint(v.v)
      [] v.t = "Float" -> encodeFloat(v.v)
      [] v.t = "String" -> encodeString(v.v)
      [] v.t = "Binary" -> encodeBinary(v.v)
      [] v.t = "Extension" -> encodeExtension(v.v.type, v.v.data)
      [] v.t = "Timestamp" -> encodeTimestamp(v.v)
      [] v.t = "Date" -> encodeDate(v.v)
      [] v.t = "BigInt" -> encodeBigInt(v.v)
      [] OTHER -> <<>>

\* The index at which the loop of RleCodec::encode ends the run that begins
\* at index i (1-based here): the first later element that is not equal to
\* last_value, or the end of the array
RunEnd(array, i) ==
    LET later == {j \in (i + 1)..Len(array) : ~ValueEq(array[j], array[i])}
    IN IF later = {} THEN Len(array) + 1
       ELSE CHOOSE j \in later : \A k \in later : j <= k

\* The writes of RleCodec::encode from the run that begins at index i: the
\* value of each run and, through encodeInt, its run_length
RECURSIVE RleLoop(_, _)
RleLoop(array, i) ==
    LET end == RunEnd(array, i)
    IN RleVisit(array[i]) \o encodeInt(I64(end - i))
       \o (IF end > Len(array) THEN <<>> ELSE RleLoop(array, end))

RleCodec_encode(array) ==
    IF array = <<>> THEN <<>> ELSE RleLoop(array, 1)

\* RleCodec::decode is a record
\*   bytes, pos, items   the data, the cursor and the result vector
\*   part    "value" / "length": which of the two decode_and_get_pos calls
\*           of the loop body is being made
\*   run     that call of Decoder::decode(buffer, pos) on the rest of the data
\*   held    the value the first call of the loop body returned
\* The head of the while loop: the call returns result, or the loop body
\* makes its first call of decode_and_get_pos.
RleWhile(r) ==
    IF r.pos >= Len(r.bytes) THEN [r EXCEPT !.op = "done", !.result = Ok(r.items, r.pos)]
    ELSE [r EXCEPT !.part = "value",
                   !.run = Call("value", Slice(r.bytes, r.pos, Len(r.bytes) - r.pos),
                                FALSE, TRUE)]

\* One step of RleCodec::decode: a step of the decoder call it is in or,
\* when that call has returned or thrown, the statements behind it.
\* std::get<Int> throws when the run length was decoded as another variant;
\* vector::insert throws when the count, converted to size_t, is above what
\* a vector can hold.
RleCodec_decode(r) ==
    LET run == r.run
        at == r.pos + run.pos
        run_length == run.ret.v
    IN CASE run.pc = "value" -> [r EXCEPT !.run = decode(run)]
         [] run.pc = "return" /\ run.stack # <<>> -> [r EXCEPT !.run = return(run)]
         [] run.pc = "done" ->
                [r EXCEPT !.op = "done",
                          !.result = [ok |-> FALSE, val |-> <<>>, pos |-> at,
                                      err |-> run.err, ub |-> run.ub]]
         [] run.pc = "return" /\ run.stack = <<>> /\ r.part = "value" ->
                [r EXCEPT !.part = "length", !.held = run.ret, !.pos = at,
                          !.run = Call("value", Slice(r.bytes, at, Len(r.bytes) - at),
                                       FALSE, TRUE)]
         [] OTHER ->
                IF run.ret.t # "Int"
                THEN [r EXCEPT !.op = "done", !.result = Throw("std::bad_variant_access", at)]
                ELSE IF ~UFits(run_length, 4) \/ run_length[5] >= 64
                THEN [r EXCEPT !.op = "done", !.result = Throw("std::length_error", at)]
                ELSE RleWhile([r EXCEPT !.pos = at,
                                        !.items = @ \o [k \in 1..BENum(BE(run_length, 4)) |->
                                                           r.held]])

\* The arrays given to RleCodec::encode: every array of up to MaxRleLen of
\* the values, and one run of LongRun equal values
MaxRleLen == 3
LongRun == 130

RleValues == {NilV, BoolV(TRUE), IntV(Word(5)), IntV(Word(-1)), UintV(Word(5)),
              FloatV(<<64, 9, 33, 249, 240, 27, 134, 110>>), StringV(<<104, 105>>),
              BinaryV(<<1, 2, 3>>)}

RleArrays ==
    UNION {[1..n -> RleValues] : n \in 0..MaxRleLen} \cup {[i \in 1..LongRun |-> NilV]}

-----------------------------------------------------------------------------
(* The calls *)

NoCall == Call("none", <<>>, FALSE, FALSE)

\* The threads that call encode and decode, and how many calls each makes
Threads == {1, 2}
MaxCalls == 2

\* The calls the threads make: decode calls that return, one that throws,
\* and an encode call
SessionCalls == <<
    [kind |-> "decode", bytes |-> <<192>>,
     options |-> [auto_decompress |-> FALSE, strict |-> TRUE]],
    [kind |-> "decode", bytes |-> <<145, 42>>,
     options |-> [auto_decompress |-> FALSE, strict |-> TRUE]],
    [kind |-> "decode", bytes |-> <<192, 192>>, options |-> DefaultDecodeOptions],
    [kind |-> "encode", v |-> ArrayV(<<UintV(Word(42))>>), options |-> DefaultEncodeOptions]
>>

\* A thread that has made no call
Idle == [n |-> 0, key |-> 0, run |-> NoCall]

Init ==
    /\ host \in {"LE", "BE"}
    /\ with_lz4 \in BOOLEAN
    /\ with_zstd \in BOOLEAN
    /\ op = "init"
    /\ value = NilV
    /\ eopts = DefaultEncodeOptions
    /\ enc = Throw("no call", 0)
    /\ data = <<>>
    /\ source = "none"
    /\ dopts = DefaultDecodeOptions
    /\ dec = NoCall
    /\ threads = [i \in Threads |-> Idle]
    /\ first = [k \in 1..Len(SessionCalls) |-> <<>>]
    /\ schemas_ = NoSchemas
    /\ registered = [p \in Names \X Versions |-> Null]
    /\ lastcall = "none"
    /\ rle = NoRle

\* bytes = encode(Values[i], o)
Encode(i, o) ==
    /\ op = "init"
    /\ op' = "encode"
    /\ value' = Values[i]
    /\ eopts' = o
    /\ enc' = btoon_encode(Values[i], o)
    /\ data' = IF enc'.ok THEN enc'.val ELSE <<>>
    /\ source' = "encode"
    /\ UNCHANGED <<session, registry, rle>>
    /\ UNCHANGED <<host, with_lz4, with_zstd, dopts, dec>>

\* Encoder e; e.encode(v); bytes = e.getBuffer()
EncoderEncode(v) ==
    /\ op = "init"
    /\ op' = "encode"
    /\ value' = v
    /\ enc' = Ok(Encoder_encode(v), 0)
    /\ data' = enc'.val
    /\ source' = "Encoder"
    /\ UNCHANGED <<session, registry, rle>>
    /\ UNCHANGED <<host, with_lz4, with_zstd, eopts, dopts, dec>>

\* The caller holds bytes from elsewhere
Load(j) ==
    /\ op = "init"
    /\ op' = "load"
    /\ data' = Inputs[j]
    /\ source' = "bytes"
    /\ UNCHANGED <<session, registry, rle>>
    /\ UNCHANGED <<host, with_lz4, with_zstd, value, eopts, enc, dopts, dec>>

\* decode(data, o) is called
Decode(o) ==
    /\ op \in {"encode", "load"}
    /\ op = "encode" => enc.ok
    /\ op' = "decode"
    /\ dopts' = o
    /\ dec' = btoon_decode(data, o)
    /\ UNCHANGED <<session, registry, rle>>
    /\ UNCHANGED <<host, with_lz4, with_zstd, value, eopts, enc, data, source>>

\* Decoder::decode(buffer, pos) is entered
DecodeValue ==
    /\ op = "decode"
    /\ dec.pc = "value"
    /\ dec' = decode(dec)
    /\ UNCHANGED <<session, registry, rle>>
    /\ UNCHANGED <<host, with_lz4, with_zstd, op, value, eopts, enc, data, source, dopts>>

\* A call of Decoder::decode(buffer, pos) returns
DecodeReturn ==
    /\ op = "decode"
    /\ dec.pc = "return"
    /\ dec' = return(dec)
    /\ UNCHANGED <<session, registry, rle>>
    /\ UNCHANGED <<host, with_lz4, with_zstd, op, value, eopts, enc, data, source, dopts>>

Next ==
    \/ \E i \in 1..Len(Values), o \in EncodeOptionsSet : Encode(i, o)
    \/ \E i \in 1..Len(Values) : EncoderEncode(Values[i])
    \/ \E i \in 1..Len(EncoderValues) : EncoderEncode(EncoderValues[i])
    \/ \E j \in 1..Len(Inputs) : Load(j)
    \/ \E o \in DecodeOptionsSet : Decode(o)
    \/ DecodeValue
    \/ DecodeReturn

Spec == Init /\ [][Next]_vars

-----------------------------------------------------------------------------
(* Several top-level calls, made one after another by each of two threads  *)
(* and interleaved between the threads.  encode and decode of btoon.cpp    *)
(* construct their Encoder and Decoder as locals and the repository        *)
(* has no static or global object that they write; a call of decode runs   *)
(* in the steps of its Decoder, a call of encode in one step.              *)

\* What a call returned or threw
Outcome(run) == [ok |-> run.ok, val |-> run.val, err |-> run.err, ub |-> run.ub]

\* A decode that takes up the cursor where the thread's last call left it
BeginDecodeAtLastCursor(prev, bytes, options) ==
    [btoon_decode(bytes, options) EXCEPT !.pos = prev.pos]

\* decode(bytes, options) entered by a thread whose last call was prev:
\* Decoder decoder and size_t pos = 0 are constructed anew
BeginDecode(prev, bytes, options) == btoon_decode(bytes, options)

\* encode(v, options) by a thread whose last call was prev: Encoder encoder
\* is constructed anew; the call as a finished run whose val is the bytes
BeginEncode(prev, v, options) ==
    LET r == btoon_encode(v, options)
    IN [NoCall EXCEPT !.pc = "done", !.ok = r.ok, !.val = r.val, !.err = r.err]

\* The first outcome of call k is kept
Noted(k, run) ==
    IF run.pc = "done" /\ first[k] = <<>> THEN [first EXCEPT ![k] = <<Outcome(run)>>]
    ELSE first

\* Thread i, between two calls, makes call k of SessionCalls
ThreadCall(i, k) ==
    /\ threads[i].run.pc \in {"none", "done"}
    /\ threads[i].n < MaxCalls
    /\ LET c == SessionCalls[k]
           run == IF c.kind = "decode" THEN BeginDecode(threads[i].run, c.bytes, c.options)
                  ELSE BeginEncode(threads[i].run, c.v, c.options)
       IN /\ threads' = [threads EXCEPT ![i] = [n |-> @.n + 1, key |-> k, run |-> run]]
          /\ first' = Noted(k, run)
    /\ UNCHANGED <<host, with_lz4, with_zstd, op, value, eopts, enc, data, source, dopts, dec>>
    /\ UNCHANGED <<registry, rle>>

\* The decode call of thread i takes its next step
ThreadStep(i) ==
    /\ threads[i].run.pc \in {"value", "return"}
    /\ LET run == IF threads[i].run.pc = "value" THEN decode(threads[i].run)
                  ELSE return(threads[i].run)
       IN /\ threads' = [threads EXCEPT ![i].run = run]
          /\ first' = Noted(threads[i].key, run)
    /\ UNCHANGED <<host, with_lz4, with_zstd, op, value, eopts, enc, data, source, dopts, dec>>
    /\ UNCHANGED <<registry, rle>>

NextCalls ==
    \/ \E i \in Threads, k \in 1..Len(SessionCalls) : ThreadCall(i, k)
    \/ \E i \in Threads : ThreadStep(i)

SpecCalls == Init /\ [][NextCalls]_vars

-----------------------------------------------------------------------------
(* The calls on one SchemaRegistry *)

RegisterSchema(name, schema) ==
    /\ schemas_' = registerSchema(schemas_, name, schema)
    /\ registered' = [registered EXCEPT ![<<name, schema.version>>] = schema]
    /\ lastcall' = "registerSchema"
    /\ UNCHANGED <<host, with_lz4, with_zstd, op, value, eopts, enc, data, source, dopts, dec>>
    /\ UNCHANGED <<session, rle>>

RemoveSchema(name) ==
    /\ schemas_' = removeSchema(schemas_, name)
    /\ registered' = [p \in Names \X Versions |-> IF p[1] = name THEN Null ELSE registered[p]]
    /\ lastcall' = "removeSchema"
    /\ UNCHANGED <<host, with_lz4, with_zstd, op, value, eopts, enc, data, source, dopts, dec>>
    /\ UNCHANGED <<session, rle>>

RemoveSchemaVersion(name, version) ==
    /\ schemas_' = removeSchemaVersion(schemas_, name, version)
    /\ registered' = [registered EXCEPT ![<<name, version>>] = Null]
    /\ lastcall' = "removeSchemaVersion"
    /\ UNCHANGED <<host, with_lz4, with_zstd, op, value, eopts, enc, data, source, dopts, dec>>
    /\ UNCHANGED <<session, rle>>

Clear ==
    /\ schemas_' = clear(schemas_)
    /\ registered' = [p \in Names \X Versions |-> Null]
    /\ lastcall' = "clear"
    /\ UNCHANGED <<host, with_lz4, with_zstd, op, value, eopts, enc, data, source, dopts, dec>>
    /\ UNCHANGED <<session, rle>>

NextRegistry ==
    \/ \E name \in Names, schema \in Schemas : RegisterSchema(name, schema)
    \/ \E name \in Names : RemoveSchema(name)
    \/ \E name \in Names, version \in Versions : RemoveSchemaVersion(name, version)
    \/ Clear

SpecRegistry == Init /\ [][NextRegistry]_vars

-----------------------------------------------------------------------------
(* The calls of RleCodec *)

\* bytes = RleCodec::encode(array)
RleEncode(array) ==
    /\ rle.op = "none"
    /\ rle' = [NoRle EXCEPT !.op = "encode", !.data = array, !.bytes = RleCodec_encode(array)]
    /\ UNCHANGED <<host, with_lz4, with_zstd, op, value, eopts, enc, data, source, dopts, dec>>
    /\ UNCHANGED <<session, registry>>

\* RleCodec::decode(bytes) is called
RleDecode ==
    /\ rle.op = "encode"
    /\ rle' = RleWhile([rle EXCEPT !.op = "decode"])
    /\ UNCHANGED <<host, with_lz4, with_zstd, op, value, eopts, enc, data, source, dopts, dec>>
    /\ UNCHANGED <<session, registry>>

\* RleCodec::decode takes its next step
RleDecodeStep ==
    /\ rle.op = "decode"
    /\ rle' = RleCodec_decode(rle)
    /\ UNCHANGED <<host, with_lz4, with_zstd, op, value, eopts, enc, data, source, dopts, dec>>
    /\ UNCHANGED <<session, registry>>

NextRle ==
    \/ \E array \in RleArrays : RleEncode(array)
    \/ RleDecode
    \/ RleDecodeStep

SpecRle == Init /\ [][NextRle]_vars

-----------------------------------------------------------------------------
(* Properties *)

\* The decode call has returned or thrown
Done == op = "decode" /\ dec.pc = "done"

\* decode(encode(value, eopts), dopts) has returned or thrown
RoundTripDone == Done /\ source = "encode"

\* No compression frame: fewer bytes than a header, or other first four bytes
NoMagic(bytes) == Len(bytes) < 4 \/ Slice(bytes, 0, 4) # BTOON_MAGIC

\* An Array of two or more Maps that share one non-empty key set
UniformMaps(v) ==
    /\ v.t = "Array"
    /\ Len(v.v) >= 2
    /\ \A i \in 1..Len(v.v) :
          /\ v.v[i].t = "Map"
          /\ Len(v.v[i].v) > 0
          /\ [k \in 1..Len(v.v[i].v) |-> v.v[i].v[k].k] = [k \in 1..Len(v.v[1].v) |-> v.v[1].v[k].k]

\* The algorithms this build compresses with
Supported == {ZLIB} \cup (IF with_lz4 THEN {LZ4} ELSE {}) \cup (IF with_zstd THEN {ZSTD} ELSE {})

\* C1: round trip.  Whenever decode, with default options, is given the
\* bytes that encode, with default options, returned for a value, it returns
\* a value equal to that one under Value::operator==.
C1_RoundTrip ==
    (RoundTripDone /\ eopts = DefaultEncodeOptions /\ dopts = DefaultDecodeOptions)
        => (dec.ok /\ ValueEq(dec.val, value))

\* C2: bounds safety.  During decode of any bytes no read of the buffer is
\* made outside it, and the call ends by returning a value or by throwing.
C2_BoundsSafety == op = "decode" => (~dec.ub /\ (Done => (dec.ok \/ dec.err # "")))

\* C3: tabular transparency.  For an Array of two or more Maps with one
\* non-empty key set, decode of what encode returned gives back the Array,
\* whether encode was called with auto_tabular on or off (so that the two
\* results are also equal to each other).
C3_TabularTransparency ==
    (RoundTripDone /\ ~eopts.compress /\ UniformMaps(value) /\ dopts = DefaultDecodeOptions)
        => (dec.ok /\ ValueEq(dec.val, value))

\* C4: envelope equivalence.  encode with compress on and an algorithm the
\* build supports returns bytes, and decode of them returns a value equal to
\* the one encoded.
C4_EnvelopeEquivalence ==
    (source = "encode" /\ eopts.compress /\ eopts.compression_algorithm \in Supported)
        => /\ enc.ok
           /\ (Done /\ dopts = DefaultDecodeOptions) => (dec.ok /\ ValueEq(dec.val, value))

\* C5: with auto_decompress on, bytes that do not begin with the magic
\* bytes go to the wire codec as they are, without any decompression.
C5_NoMagicIsUncompressed ==
    (op = "decode" /\ dopts.auto_decompress /\ NoMagic(data))
        => (dec.wire /\ ~dec.inflated /\ dec.buffer = data)

\* C6: depth limit.  decode is never more than max_depth containers deep,
\* and bytes nested deeper end it with DepthExceeded.
C6_DepthLimit ==
    op = "decode" =>
        /\ dec.depth <= max_depth
        /\ (Done /\ dec.wire /\ Len(dec.buffer) > max_depth
              /\ \A i \in 1..(max_depth + 1) : dec.buffer[i] = 145)
             => (~dec.ok /\ dec.err = "DepthExceeded")

\* C7: strict key order.  With strict on, a map key below its predecessor
\* ends decode with KeyOrder, one equal to its predecessor with
\* DuplicateKey, and no value is returned.
C7_StrictKeyOrder ==
    (Done /\ dopts.strict /\ dec.ko # "none") => (~dec.ok /\ dec.err = dec.ko)

\* C8: trailing bytes.  When the outermost value has been decoded and bytes
\* remain behind it, decode throws TrailingBytes with strict on and returns
\* the value with strict off.
C8_TrailingBytes ==
    [][(op = "decode" /\ dec.pc = "return" /\ dec.stack = <<>> /\ dec.pos < Len(dec.buffer))
          => IF dopts.strict THEN ~dec'.ok /\ dec'.err = "TrailingBytes"
             ELSE dec'.ok /\ dec'.val = dec.ret]_vars

\* Ratio of uncompressed_size to compressed_size above which a frame is
\* taken for a decompression bomb
max_ratio == 1024

\* The header of a frame declares sizes whose ratio is above max_ratio
DeclaresBomb(bytes) ==
    /\ Len(bytes) >= HeaderSize
    /\ ~NoMagic(bytes)
    /\ BENum(Slice(bytes, 8, 4)) > 0
    /\ BENum(Slice(bytes, 12, 4)) \div BENum(Slice(bytes, 8, 4)) > max_ratio

\* C9: decompression-bomb guard.  decode of a frame whose header declares a
\* ratio above max_ratio never calls the decompressor and throws
\* DecompressionBomb.
C9_BombGuard ==
    (op = "decode" /\ dopts.auto_decompress /\ DeclaresBomb(data))
        => (~dec.inflated /\ (Done => (~dec.ok /\ dec.err = "DecompressionBomb")))

\* The tags str8/16/32, array16/32 and map16/32
WideTags == {217, 218, 219, 220, 221, 222, 223}

\* A String of LongLen or more bytes, an Array or a Map of LargeCount or more
Wide(v) ==
    \/ v.t = "String" /\ Len(v.v) >= LongLen
    \/ v.t \in {"Array", "Map"} /\ Len(v.v) >= LargeCount

\* C10: dispatch.  Bytes beginning with one of the wide tags are not
\* refused as an unknown marker, and the encoding of a long String, a large
\* Array or a large Map is accepted by decode.
C10_WideTagsDispatched ==
    (Done /\ dec.wire /\ dec.buffer # <<>> /\ dec.buffer[1] \in WideTags)
        => /\ dec.err # "Unknown marker"
           /\ (source = "encode" /\ Wide(value)) => dec.ok

\* encode(value, eopts) returned the wire bytes as they are (no frame)
PlainEncoded == source = "encode" /\ enc.ok /\ ~eopts.compress

\* C11: big-endian wire order.  On either host the bytes encode writes
\* behind the tag of an Int, Uint or Float are the low bytes of the value,
\* most significant first; the 8 payload bytes of a Timestamp or Date are
\* the value, most significant first; the 2-byte length of a large Array
\* or Map is its size, most significant first.
C11_BigEndianWire ==
    PlainEncoded =>
        /\ value.t \in {"Int", "Uint", "Float"}
             => Tail(enc.val) = BE(value.v, Len(enc.val) - 1)
        /\ value.t \in {"Timestamp", "Date"}
             => SubSeq(enc.val, Len(enc.val) - 7, Len(enc.val)) = value.v
        /\ (value.t \in {"Array", "Map"} /\ Len(value.v) >= LargeCount)
             => SubSeq(enc.val, 2, 3) = BE(I64(Len(value.v)), 2)

\* C12: idempotent encode.  decode, with default options, of what encode
\* returned for a value succeeds, and encode of the value it returns, with
\* the same options, succeeds and gives the same bytes again.
C12_IdempotentEncode ==
    (RoundTripDone /\ dopts = DefaultDecodeOptions)
        => /\ dec.ok
           /\ Visitable(dec.val)
           /\ btoon_encode(dec.val, eopts) = enc

\* The call thread i made last has returned or thrown
ThreadDone(i) == threads[i].n > 0 /\ threads[i].run.pc = "done"

C14_IsTabular ==
    (source \in {"encode", "Encoder"} /\ value.t = "Array")
        => (is_tabular(value.v) <=> UniformMaps(value))

\* The bytes are an Extension whose type code is -10
TabularExtension(bytes) ==
    /\ Len(bytes) >= 2
    /\ CASE bytes[1] \in {212, 213, 214, 215, 216} -> bytes[2] = U8(-10)
         [] bytes[1] = 199 -> Len(bytes) >= 3 /\ bytes[3] = U8(-10)
         [] bytes[1] = 200 -> Len(bytes) >= 4 /\ bytes[4] = U8(-10)
         [] bytes[1] = 201 -> Len(bytes) >= 6 /\ bytes[6] = U8(-10)
         [] OTHER -> FALSE

\* The bytes begin with an array tag and hold the elements in input order
GenericArray(bytes, elements) ==
    /\ bytes # <<>>
    /\ bytes[1] \in 144..159 \cup {220, 221}
    /\ bytes = encodeArray([i \in 1..Len(elements) |-> EncodeVisitor(elements[i])])

\* C15: auto_tabular selects the array encoding.  encode of a tabular Array
\* with auto_tabular on returns an Extension of type -10; with auto_tabular
\* off, or for an Array that is not tabular, it returns the generic Array
\* encoding.
C15_AutoTabularSelects ==
    (source = "encode" /\ ~eopts.compress /\ value.t = "Array")
        => /\ enc.ok
           /\ (eopts.auto_tabular /\ UniformMaps(value)) => TabularExtension(enc.val)
           /\ (~eopts.auto_tabular \/ ~is_tabular(value.v)) => GenericArray(enc.val, value.v)

\* Payload size below which a compressing encode leaves the payload unframed
min_compression_size == 256

\* C16: minimum size for compression.  encode with compress on, of a value
\* whose wire encoding is shorter than min_compression_size, returns that
\* wire encoding without a frame header, and decode gives the value back.
C16_SmallPayloadUnframed ==
    (source = "encode" /\ eopts.compress /\ eopts.compression_algorithm \in Supported
       /\ Len(EncodeVisitor(value)) < min_compression_size)
        => /\ enc.ok
           /\ enc.val = EncodeVisitor(value)
           /\ (Done /\ dopts = DefaultDecodeOptions) => (dec.ok /\ ValueEq(dec.val, value))

\* The bytes are a compression frame: a whole header that begins with the
\* magic bytes
Framed(bytes) == Len(bytes) >= HeaderSize /\ ~NoMagic(bytes)

\* The messages of the two size checks of decode
LengthMismatch == {"Compressed data size mismatch.", "Decompressed data size mismatch."}

\* The header's compressed_size is not the number of bytes behind the
\* header, or the decompressor returns another number of bytes than the
\* header's uncompressed_size
SizesDiffer(bytes) ==
    LET payload == Slice(bytes, HeaderSize, Len(bytes) - HeaderSize)
        out == decompress(At(bytes, 5), payload)
    IN \/ BENum(Slice(bytes, 8, 4)) # Len(payload)
       \/ out.ok /\ BENum(Slice(bytes, 12, 4)) # Len(out.val)

\* C17: frame size cross-check.  decode of a frame whose compressed_size or
\* uncompressed_size does not agree with the bytes throws one of the size
\* mismatch errors without running the wire codec, so that a frame decode
\* returns a value only when both sizes agree.
C17_FrameSizesChecked ==
    (op = "decode" /\ dopts.auto_decompress /\ Framed(data))
        => /\ SizesDiffer(data) => (Done /\ ~dec.ok /\ dec.err \in LengthMismatch /\ ~dec.wire)
           /\ dec.ok => ~SizesDiffer(data)

\* decode has opened a frame whose payload inflates to another length than
\* the header declares, and has thrown
C17_Witness ==
    /\ Done /\ dopts.auto_decompress /\ Framed(data)
    /\ BENum(Slice(data, 8, 4)) = Len(data) - HeaderSize
    /\ dec.inflated
    /\ dec.err = "Decompressed data size mismatch."

\* C18: frame recognition.  Input that begins with the magic bytes but
\* carries a header version byte other than 1 is not handed to a
\* decompressor.
C18_VersionGatesFrame ==
    (op = "decode" /\ dopts.auto_decompress /\ Framed(data) /\ At(data, 4) # 1)
        => ~dec.inflated

\* The width of the length prefix that decodeString and decodeBinary read
\* behind the marker
PrefixWidth(marker) ==
    CASE marker \in 160..191 -> 0
      [] marker \in {217, 196} -> 1
      [] marker \in {218, 197} -> 2
      [] marker \in {219, 198} -> 4

\* The bytes begin a string or binary element whose whole length prefix is
\* there and declares more bytes than follow it
LengthBeyond(bytes) ==
    /\ bytes # <<>>
    /\ bytes[1] \in (160..191) \cup {217, 218, 219, 196, 197, 198}
    /\ LET w == PrefixWidth(bytes[1])
           len == IF w = 0 THEN bytes[1] % 32 ELSE BENum(Slice(bytes, 1, w))
       IN Len(bytes) >= 1 + w /\ Overflows(1 + w, len, bytes)

\* C19: a string or binary element whose length prefix declares more bytes
\* than remain makes the wire decode fail with the bounds error ("Decoder
\* overflow" of check_overflow), reported at the offset behind the length
\* prefix (offset 3 for da 00 10 'h' 'i'), and return no value.
C19_LengthBeyondBuffer ==
    (Done /\ source = "bytes" /\ ~dopts.auto_decompress /\ LengthBeyond(data))
        => /\ ~dec.ok
           /\ dec.err = "Decoder overflow"
           /\ dec.pos = 1 + PrefixWidth(data[1])

\* C20: integer normalization.  encode of a non-negative Int gives the bytes
\* that encode gives for the Uint of the same number, and never begins with
\* one of the signed tags 0xd0..0xd3.
C20_NonNegativeIntAsUint ==
    (PlainEncoded /\ value.t = "Int" /\ value.v[1] < 128)
        => /\ enc.val = btoon_encode(UintV(value.v), eopts).val
           /\ enc.val[1] \notin 208..211

\* C21: narrowest-tag selection.  encode writes a Uint as a positive fixint
\* for 0..127 and else under the first of uint8, uint16, uint32, uint64 that
\* holds it, and a negative Int as a negative fixint for -32..-1 and else
\* under the first of int8, int16, int32, int64 that holds it; the tag is
\* followed by as many bytes as its form has.
C21_NarrowestTag ==
    PlainEncoded =>
        LET w == value.v
            zeros == Cardinality({k \in 1..8 : \A i \in 1..k : w[i] = 0})
            ones == Cardinality({k \in 1..8 : \A i \in 1..k : w[i] = 255})
            form == <<Len(enc.val) - 1, enc.val[1]>>
        IN /\ value.t = "Uint" =>
                IF zeros = 8 \/ (zeros = 7 /\ w[8] <= 127) THEN enc.val = <<w[8]>>
                ELSE IF zeros = 7 THEN form = <<1, 204>>
                ELSE IF zeros = 6 THEN form = <<2, 205>>
                ELSE IF zeros >= 4 THEN form = <<4, 206>>
                ELSE form = <<8, 207>>
           /\ (value.t = "Int" /\ w[1] >= 128) =>
                IF ones >= 7 /\ w[8] >= 224 THEN enc.val = <<w[8]>>
                ELSE IF ones >= 7 /\ w[8] >= 128 THEN enc.val = <<208, w[8]>>
                ELSE IF ones >= 6 /\ w[7] >= 128 THEN form = <<2, 209>>
                ELSE IF ones >= 4 /\ w[5] >= 128 THEN form = <<4, 210>>
                ELSE form = <<8, 211>>
           /\ value = UintV(Word(42)) => enc.val = <<42>>
           /\ value = IntV(Word(-15)) => enc.val = <<241>>
           /\ value = IntV(Word(-32)) => enc.val = <<224>>
           /\ value = IntV(Word(-33)) => enc.val = <<208, 223>>

\* encode has written Int(-33), the first value below the negative fixints
C21_Witness == PlainEncoded /\ value = IntV(Word(-33)) /\ Len(enc.val) = 2

\* C22: integer tag tie-break on decode.  Where the wire codec runs on bytes
\* that begin with a whole integer element, the call returns a Uint for a
\* positive fixint and the tags 0xcc..0xcf and an Int for a negative fixint
\* and the tags 0xd0..0xd3, also when the number behind a signed tag is not
\* negative (d0 05 is Int(5)).
C22_TagFixesVariant ==
    (Done /\ source = "bytes" /\ dec.wire /\ dec.buffer # <<>>) =>
        LET tag == dec.buffer[1]
            width == CASE tag \in {204, 208} -> 1
                       [] tag \in {205, 209} -> 2
                       [] tag \in {206, 210} -> 4
                       [] tag \in {207, 211} -> 8
                       [] OTHER -> 0
            whole == Len(dec.buffer) >= 1 + width
        IN /\ (tag <= 127 \/ (tag \in 204..207 /\ whole)) => (dec.ok /\ dec.val.t = "Uint")
           /\ (tag >= 224 \/ (tag \in 208..211 /\ whole)) => (dec.ok /\ dec.val.t = "Int")
           /\ dec.buffer = <<208, 5>> => dec.val = IntV(Word(5))

\* decode has returned from a signed tag that carries a number that is not
\* negative
C22_Witness ==
    /\ Done /\ source = "bytes" /\ dec.wire /\ dec.ok
    /\ dec.buffer = <<209, 0, 5>>
    /\ dec.val = IntV(Word(5))

\* a is before b in byte-lexicographic order
BytesLess(a, b) ==
    \E i \in 1..Len(b) :
        /\ \A j \in 1..(i - 1) : j <= Len(a) /\ a[j] = b[j]
        /\ i > Len(a) \/ a[i] < b[i]

\* A reader of the wire format that walks one element of the bytes and tells
\* where it ends and whether, in every map on the way, each key is a fixstr
\* that is after the key before it.  WireItems walks n elements, WireEntries
\* n map entries of which prev holds the key before, if there is one.
RECURSIVE WireScan(_, _), WireItems(_, _, _), WireEntries(_, _, _, _)
WireScan(b, pos) ==
    IF pos >= Len(b) THEN [end |-> pos, ok |-> FALSE]
    ELSE LET m == At(b, pos)
             Fixed(n) == [end |-> pos + n, ok |-> pos + n <= Len(b)]
         IN CASE m \in 128..143 -> WireEntries(b, pos + 1, m % 16, <<>>)
              [] m \in 144..159 -> WireItems(b, pos + 1, m % 16)
              [] m \in 160..191 -> Fixed(1 + (m % 32))
              [] m <= 127 \/ m >= 224 \/ m \in {192, 194, 195} -> Fixed(1)
              [] m \in {204, 208} -> Fixed(2)
              [] m \in {205, 209} -> Fixed(3)
              [] m \in {202, 206, 210} -> Fixed(5)
              [] m \in {203, 207, 211} -> Fixed(9)
              [] OTHER -> [end |-> pos, ok |-> FALSE]

WireItems(b, pos, n) ==
    IF n = 0 THEN [end |-> pos, ok |-> TRUE]
    ELSE LET r == WireScan(b, pos)
         IN IF ~r.ok THEN r ELSE WireItems(b, r.end, n - 1)

WireEntries(b, pos, n, prev) ==
    IF n = 0 THEN [end |-> pos, ok |-> TRUE]
    ELSE IF pos >= Len(b) \/ At(b, pos) \notin 160..191 \/ pos + 1 + (At(b, pos) % 32) > Len(b)
    THEN [end |-> pos, ok |-> FALSE]
    ELSE LET len == At(b, pos) % 32
             key == Slice(b, pos + 1, len)
             r == WireScan(b, pos + 1 + len)
         IN IF prev # <<>> /\ ~BytesLess(prev[1], key) THEN [end |-> pos, ok |-> FALSE]
            ELSE IF ~r.ok THEN r
            ELSE WireEntries(b, r.end, n - 1, <<key>>)

\* C23: map key order on encode.  The bytes encode writes for a Map, or for
\* an Array with maps in it, hold the entries of every map, at every nesting
\* level, in strictly ascending byte-lexicographic order of the key bytes,
\* whatever the order in which the map was built; {"name": "Alice",
\* "age": 30} is written with "age" first.
C23_KeysAscendOnWire ==
    (PlainEncoded /\ value.t \in {"Map", "Array"}) =>
        LET body == IF enc.val[1] \in 128..159 THEN 1 ELSE 3
            r == IF value.t = "Map" THEN WireEntries(enc.val, body, Len(value.v), <<>>)
                 ELSE WireItems(enc.val, body, Len(value.v))
        IN /\ r.ok /\ r.end = Len(enc.val)
           /\ (value.t = "Map" /\ MapHas(value.v, <<110, 97, 109, 101>>))
                => enc.val = <<130, 163, 97, 103, 101, 30,
                               164, 110, 97, 109, 101, 165, 65, 108, 105, 99, 101>>

\* encode has written a map that was built with its keys in descending
\* order and that holds maps built in descending order
C23_Witness ==
    /\ PlainEncoded /\ value.t = "Map" /\ Len(value.v) = 2
    /\ value.v[1].v.t = "Array" /\ value.v[2].v.t = "Map"
    /\ enc.val = <<130, 161, 97, 145, 130, 161, 101, 192, 161, 102, 192,
                   161, 98, 130, 161, 99, 195, 161, 100, 192>>

\* C24: private extension codes.  encode and Encoder::encode write a
\* Timestamp, Date, DateTime, BigInt, VectorFloat or VectorDouble as an
\* extension whose type code is -1, -2, -3, -4, -5 or -6, and the wire decode
\* of those bytes returns a value of the same variant.
C24_PrivateExtensionCodes ==
    (/\ op \in {"encode", "decode"}
     /\ source \in {"encode", "Encoder"} /\ enc.ok
     /\ source = "encode" => ~eopts.compress
     /\ value.t \in {"Timestamp", "Date", "DateTime", "BigInt", "VectorFloat", "VectorDouble"})
        => LET code == CASE value.t = "Timestamp" -> -1
                         [] value.t = "Date" -> -2
                         [] value.t = "DateTime" -> -3
                         [] value.t = "BigInt" -> -4
                         [] value.t = "VectorFloat" -> -5
                         [] value.t = "VectorDouble" -> -6
               type == CASE enc.val[1] \in {212, 213, 214, 215, 216} -> 2
                         [] enc.val[1] = 199 -> 3
                         [] enc.val[1] = 200 -> 4
                         [] OTHER -> 6
           IN /\ enc.val[1] \in {212, 213, 214, 215, 216, 199, 200, 201}
              /\ enc.val[type] = U8(code)
              /\ (Done /\ ~dopts.auto_decompress) => (dec.ok /\ dec.val.t = value.t)

\* C25: encoder and decoder agree on the extension length field.  The wire
\* decode of the bytes encode writes for an application Extension (type code
\* 0..127) returns an Extension of the same type code and the same payload
\* bytes, and ends where the bytes end.
C25_ExtensionLengthAgrees ==
    (/\ RoundTripDone /\ ~eopts.compress /\ ~dopts.auto_decompress
     /\ value.t = "Extension" /\ value.v.type \in 0..127)
        => /\ dec.ok
           /\ dec.val = value
           /\ dec.pos = Len(enc.val)

\* C26: tabular payload layout.  The payload of the type -10 extension that
\* Encoder::encode writes for an array of uniform maps is the 12-byte header
\* (version 1, num_columns, num_rows, each a big-endian u32), then per column
\* in key order the u32 name length, the name and the type-hint byte, then
\* per column in the same order the u32 length of the column bytes and the
\* column's cells one after the other.
C26_TabularLayout ==
    (op \in {"encode", "decode"} /\ source = "Encoder" /\ UniformMaps(value)) =>
        LET rows == value.v
            names == [i \in 1..Len(rows[1].v) |-> rows[1].v[i].k]
            U32(n) == BE(I64(n), 4)
            column(i) == Concat([r \in 1..Len(rows) |-> Encoder_encode(MapAt(rows[r].v, names[i]))])
            layout ==
                U32(1) \o U32(Len(names)) \o U32(Len(rows))
                \o Concat([i \in 1..Len(names) |->
                              U32(Len(names[i])) \o names[i]
                              \o <<TypeHint(MapAt(rows[1].v, names[i]))>>])
                \o Concat([i \in 1..Len(names) |-> U32(Len(column(i))) \o column(i)])
            type == CASE enc.val[1] \in {212, 213, 214, 215, 216} -> 2
                      [] enc.val[1] = 199 -> 3
                      [] enc.val[1] = 200 -> 4
                      [] OTHER -> 6
            payload == SubSeq(enc.val, type + 1, Len(enc.val))
        IN /\ TabularExtension(enc.val)
           /\ SubSeq(payload, 1, 12) = U32(1) \o U32(Len(names)) \o U32(Len(rows))
           /\ payload = layout

\* C27: tabular decode validation.  When the last cell of a column has been
\* decoded and the cursor is not at the end that the column's declared
\* length gives, decode fails with an error; it does not move the cursor to
\* that end and go on to return rows.
C27_ColumnLengthChecked ==
    [][(/\ op = "decode" /\ dec.pc = "return" /\ dec.stack # <<>>
        /\ Top(dec).kind = "tabular"
        /\ Top(dec).j = Len(Top(dec).rows)
        /\ dec.pos # Top(dec).column_end)
          => (dec'.pc = "done" /\ ~dec'.ok /\ ~dec'.ub)]_vars

\* C28: schema registry consistency.  After any calls of registerSchema,
\* removeSchema(name), removeSchema(name, version) and clear, getVersions(name)
\* holds exactly the versions registered under the name and not removed
\* since, getSchema(name, v) is the schema last registered there (nullptr
\* when there is none), and getLatestSchema(name) is the schema of the
\* greatest of those versions (nullptr when there are none).
C28_RegistryConsistent ==
    \A name \in Names :
        LET live == {v \in Versions : registered[<<name, v>>] # Null}
            versions == getVersions(schemas_, name)
            rank(v) == v[1] * 10000 + v[2] * 100 + v[3]
        IN /\ {versions[i] : i \in 1..Len(versions)} = live
           /\ Len(versions) = Cardinality(live)
           /\ \A v \in Versions :
                  getSchemaVersion(schemas_, name, v) = registered[<<name, v>>]
           /\ IF live = {} THEN getLatestSchema(schemas_, name) = Null
              ELSE \E v \in live :
                      /\ \A w \in live : rank(w) <= rank(v)
                      /\ getLatestSchema(schemas_, name) = registered[<<name, v>>]

\* removeSchema("user", 1.0.0) has left the two later versions of "user",
\* of which 2.0.0 is the latest, and the schemas of "order"
C28_Witness ==
    /\ lastcall = "removeSchemaVersion"
    /\ getVersions(schemas_, "user") = <<<<1, 1, 0>>, <<2, 0, 0>>>>
    /\ getLatestSchema(schemas_, "user").version = <<2, 0, 0>>
    /\ getVersions(schemas_, "order") # <<>>

\* C29: encode with compress set and compression_algorithm left at NONE
\* does not fail: it returns bytes, and decode with default options returns
\* from them a value equal to the one encoded.
C29_CompressWithNone ==
    (source = "encode" /\ eopts.compress /\ eopts.compression_algorithm = NONE)
        => /\ enc.ok
           /\ (Done /\ dopts = DefaultDecodeOptions) => (dec.ok /\ ValueEq(dec.val, value))

\* C30: RLE codec round trip.  RleCodec::decode of the bytes RleCodec::encode
\* writes for an array of Nil, Bool, Int, Uint, Float, String and Binary
\* values returns an array of the same length whose elements are equal to
\* those of the array encoded, whatever the lengths of its runs.
C30_RleRoundTrip ==
    rle.op = "done"
        => /\ rle.result.ok
           /\ Len(rle.result.val) = Len(rle.data)
           /\ \A i \in 1..Len(rle.data) : ValueEq(rle.result.val[i], rle.data[i])

====
